---- MODULE Spec2Model ----
(***************************************************************************)
(* A model of the omnidimension Python SDK: the HTTP client                *)
(* (omnidimension/client.py), the domain wrappers built on it, and the     *)
(* command line (omnidimension/cli) with its configuration, its commands   *)
(* and its interactive menus.                                              *)
(*                                                                         *)
(* Python values are tagged records ([t |-> "str", s |-> ...], ...).       *)
(* A Python string is a sequence of tokens: the tokens "/" and " " are the *)
(* single characters slash and blank, every other token is a non-empty     *)
(* run of characters holding neither, so that rstrip('/'), lstrip('/'),    *)
(* strip() and startswith/endswith act on tokens as they act on            *)
(* characters.  The characters of an API key are one token each.           *)
(*                                                                         *)
(* The exception taxonomy of the specification maps onto the code as       *)
(* follows: ValidationError and ConfigurationError are the ValueError the  *)
(* code raises; APIError is client.APIError.                               *)
(***************************************************************************)
EXTENDS Integers, Sequences, FiniteSets, TLC

VARIABLES
    client,     \* the Client object: [constructed, api_key, base_url]
    netCalls,   \* number of calls made to requests.request (the transport)
    reqCalls,   \* number of invocations of Client.request
    ops,        \* number of operations the program has carried out
    last,       \* the last operation: its inputs, what was sent, how it ended
    wrappers,   \* the Client's lazily built domain wrappers (_agent .. _simulation)
    config,     \* the command line's configuration: ~/.omnidim/config.json and the environment
    shell,      \* the last command of the command line: what it sent, how it ended
    menu        \* where the terminal session is: the shell, or a menu of interactive mode

vars == <<client, netCalls, reqCalls, ops, last, wrappers, config, shell, menu>>

----------------------------------------------------------------------------
(* Bounds of the model *)

MaxOps == 2         \* operations in one behaviour
MaxKeyLen == 9      \* non-blank characters of an api_key
MaxPad == 1         \* blanks on either side of an api_key
MaxSlash == 2       \* slashes at the end of a base_url / start of an endpoint
MaxList == 2        \* entries of a list argument
MaxId == 1          \* largest numeric id
MaxGets == 2        \* reads of the wrapper properties of a client
MaxCmds == 3        \* commands and menu choices of one terminal session

(* Program constants *)

MinKeyLen == 8      \* client.py:37  len(api_key.strip()) < 8

----------------------------------------------------------------------------
(* Python values *)

PyNone == [t |-> "none"]
PyStr(s) == [t |-> "str", s |-> s]
PyInt(n) == [t |-> "int", n |-> n]
PyBool(b) == [t |-> "bool", b |-> b]
PyList(xs) == [t |-> "list", items |-> xs]
PyDict(f) == [t |-> "dict", d |-> f]
EmptyMap == [k \in {} |-> PyNone]

\* bool(v): Python truthiness, as used by `not x` and `x or y`
Truthy(v) ==
    CASE v.t = "none" -> FALSE
      [] v.t = "str"  -> v.s # <<>>
      [] v.t = "int"  -> v.n # 0
      [] v.t = "bool" -> v.b
      [] v.t = "list" -> v.items # <<>>
      [] v.t = "dict" -> DOMAIN v.d # {}

\* isinstance(v, cls); bool is a subclass of int
IsInstance(v, cls) ==
    IF cls = "int" THEN v.t \in {"int", "bool"} ELSE v.t = cls

----------------------------------------------------------------------------
(* str methods *)

RECURSIVE RStrip(_, _)
RStrip(s, ch) ==
    IF s # <<>> /\ s[Len(s)] = ch THEN RStrip(SubSeq(s, 1, Len(s) - 1), ch) ELSE s

RECURSIVE LStrip(_, _)
LStrip(s, ch) ==
    IF s # <<>> /\ s[1] = ch THEN LStrip(Tail(s), ch) ELSE s

\* s.strip(): blanks removed from both ends
Strip(s) == LStrip(RStrip(s, " "), " ")

RECURSIVE Repeat(_, _)
Repeat(ch, n) == IF n = 0 THEN <<>> ELSE <<ch>> \o Repeat(ch, n - 1)

----------------------------------------------------------------------------
(* Client.__init__ *)

DefaultBaseUrl == <<"https:", "/", "/", "backend.omnidim.io", "/", "api", "/", "v1">>

NoClient == [constructed |-> FALSE, api_key |-> PyNone, base_url |-> <<>>]

\* The outcome of Client(api_key, base_url): the exception raised ("" if
\* none) and the object built.
ClientInit_NoStrip(api_key, base_url) ==
    IF ~Truthy(api_key)
    THEN [exc |-> "ValueError", obj |-> NoClient]
    ELSE IF ~IsInstance(api_key, "str") \/ Len(api_key.s) < MinKeyLen
    THEN [exc |-> "ValueError", obj |-> NoClient]
    ELSE [exc |-> "",
          obj |-> [constructed |-> TRUE, api_key |-> api_key,
                   base_url |-> RStrip(base_url, "/")]]
ClientInit_KeepSlashes(api_key, base_url) ==
    IF ~Truthy(api_key)
    THEN [exc |-> "ValueError", obj |-> NoClient]
    ELSE IF ~IsInstance(api_key, "str") \/ Len(Strip(api_key.s)) < MinKeyLen
    THEN [exc |-> "ValueError", obj |-> NoClient]
    ELSE [exc |-> "",
          obj |-> [constructed |-> TRUE, api_key |-> api_key, base_url |-> base_url]]
ClientInit(api_key, base_url) ==
    IF ~Truthy(api_key)
    THEN [exc |-> "ValueError", obj |-> NoClient]
    ELSE IF ~IsInstance(api_key, "str") \/ Len(Strip(api_key.s)) < MinKeyLen
    THEN [exc |-> "ValueError", obj |-> NoClient]
    ELSE [exc |-> "",
          obj |-> [constructed |-> TRUE, api_key |-> api_key,
                   base_url |-> RStrip(base_url, "/")]]

----------------------------------------------------------------------------
(* The transport: requests.request and the Response it returns *)

\* A response body: response.content and what response.json() makes of it.
\* kind "empty": no content; "object": a JSON object with the fields given;
\* "array": a JSON array; "text": content that is not JSON.
Body(kind, fields) == [kind |-> kind, fields |-> fields]

FieldValue(k) ==
    CASE k = "error_description" -> PyStr(<<"bad", " ", "token">>)
      [] k = "error" -> PyStr(<<"not", " ", "found">>)
      [] OTHER -> PyInt(7)

\* What the transport does with one call: it raises a connection-level
\* RequestException (conn = TRUE, no response), or returns a Response.
ConnectionFailure == [conn |-> TRUE, status |-> 0, body |-> Body("empty", EmptyMap)]

TransportOutcomes ==
    {ConnectionFailure}
    \cup {[conn |-> FALSE, status |-> st, body |-> b] :
            st \in {200, 204, 304, 404, 500},
            b \in {Body("empty", EmptyMap), Body("array", EmptyMap), Body("text", EmptyMap)}
                 \cup {Body("object", [k \in ks |-> FieldValue(k)]) :
                         ks \in SUBSET {"error_description", "error", "id"}}}

\* The exception response.json() raises on content that is not JSON is
\* requests.exceptions.JSONDecodeError, a RequestException, from requests
\* 2.27 on, and a plain ValueError (json.JSONDecodeError) before; setup.py
\* pins no version, so both builds exist.
Builds == {"RequestException", "ValueError"}

\* response.json()
JsonOf(body) == IF body.kind = "object" THEN PyDict(body.fields) ELSE PyList(<<>>)

\* Response.raise_for_status(): HTTPError for 400 <= status < 600
RaisesForStatus_ServerOnly(status) == 500 <= status /\ status < 600
RaisesForStatus(status) == 400 <= status /\ status < 600

\* str(e) of the HTTPError: "<status> <reason> for url: <url>"
StrOfHTTPError(status, url) ==
    PyStr(<<ToString(status), " ", "Error", " ", "for", " ", "url:", " ">> \o url)

----------------------------------------------------------------------------
(* Client.request *)

NoEnvelope == [status |-> 0 - 1, json |-> PyNone]

Returned(envelope) ==
    [exc |-> "", status_code |-> 0 - 1, message |-> PyNone, response |-> PyNone,
     envelope |-> envelope]

Raised(exc, status_code, message, response) ==
    [exc |-> exc, status_code |-> status_code, message |-> message,
     response |-> response, envelope |-> NoEnvelope]

\* headers = headers or {}; the three setdefault calls
DefaultHeaders(self) ==
    [k \in {"Authorization", "Content-Type", "Accept"} |->
        IF k = "Authorization" THEN PyStr(<<"Bearer", " ">> \o self.api_key.s)
        ELSE PyStr(<<"application", "/", "json">>)]

SetDefaults_Overwrite(self, headers) ==
    LET given == IF Truthy(headers) THEN headers.d ELSE EmptyMap
        dflt == DefaultHeaders(self)
    IN  [k \in DOMAIN given \cup DOMAIN dflt |->
            IF k \in DOMAIN dflt THEN dflt[k] ELSE given[k]]
SetDefaults(self, headers) ==
    LET given == IF Truthy(headers) THEN headers.d ELSE EmptyMap
        dflt == DefaultHeaders(self)
    IN  [k \in DOMAIN given \cup DOMAIN dflt |->
            IF k \in DOMAIN given THEN given[k] ELSE dflt[k]]

\* url = self.base_url + '/' + endpoint.lstrip('/')
BuildUrl_NoStrip(base_url, endpoint) == base_url \o <<"/">> \o endpoint
BuildUrl(base_url, endpoint) == base_url \o <<"/">> \o LStrip(endpoint, "/")

\* error_data.get('error_description', error_data.get('error', str(e))),
\* and str(e) when e.response.json() or .get raises
ErrorMessage_ErrorFirst(body, status, url) ==
    IF body.kind = "object"
    THEN IF "error" \in DOMAIN body.fields THEN body.fields["error"]
         ELSE IF "error_description" \in DOMAIN body.fields
              THEN body.fields["error_description"]
         ELSE StrOfHTTPError(status, url)
    ELSE StrOfHTTPError(status, url)
ErrorMessage(body, status, url) ==
    IF body.kind = "object"
    THEN IF "error_description" \in DOMAIN body.fields THEN body.fields["error_description"]
         ELSE IF "error" \in DOMAIN body.fields THEN body.fields["error"]
         ELSE StrOfHTTPError(status, url)
    ELSE StrOfHTTPError(status, url)

\* The request handed to requests.request
SentRequest(self, method, endpoint, params, headers, data, json_data) ==
    [method |-> CASE method = "get" -> "GET"
                  [] method = "post" -> "POST"
                  [] method = "put" -> "PUT"
                  [] method = "delete" -> "DELETE"
                  [] OTHER -> method,
     url |-> BuildUrl(self.base_url, endpoint),
     params |-> IF Truthy(params) THEN params ELSE PyDict(EmptyMap),
     headers |-> SetDefaults(self, headers),
     data |-> data,
     json |-> json_data]

\* The transport calls one invocation of Client.request makes: the single
\* call of line 74, whatever its outcome.
TransportCalls_Retry(req, resp) ==
    IF resp.conn \/ RaisesForStatus(resp.status) THEN <<req, req>> ELSE <<req>>
TransportCalls(req, resp) == <<req>>

\* except requests.exceptions.RequestException: APIError with status_code 0
NetworkError_Reraise(what) == Raised(what, 0 - 1, PyStr(<<what>>), PyNone)
NetworkError(what) ==
    Raised("APIError", 0, PyStr(<<"Network", " ", "error:", " ", what>>), PyNone)

\* json_response of a response whose body response.json() can read (or
\* need not read)
JsonResponse_NoDeleteCase(method, body) ==
    IF body.kind = "empty" THEN PyDict(EmptyMap) ELSE JsonOf(body)
JsonResponse_NoneWhenEmpty(method, body) ==
    IF method = "DELETE" THEN PyDict(EmptyMap)
    ELSE IF body.kind = "empty" THEN PyNone
    ELSE JsonOf(body)
JsonResponse(method, body) ==
    IF method = "DELETE" THEN PyDict(EmptyMap)
    ELSE IF body.kind = "empty" THEN PyDict(EmptyMap)
    ELSE JsonOf(body)

\* How Client.request ends, given what the transport did with its call.
RequestOutcome(req, resp, build) ==
    IF resp.conn
    THEN NetworkError("ConnectionError")
    ELSE IF RaisesForStatus(resp.status)
    THEN Raised("APIError", resp.status,
                ErrorMessage(resp.body, resp.status, req.url),
                IF resp.body.kind \in {"object", "array"} THEN JsonOf(resp.body)
                ELSE PyDict(EmptyMap))
    ELSE IF req.method # "DELETE" /\ resp.body.kind = "text"
    THEN IF build = "RequestException"
         THEN NetworkError("JSONDecodeError")
         ELSE Raised("ValueError", 0 - 1, PyStr(<<"JSONDecodeError">>), PyNone)
    ELSE Returned([status |-> resp.status, json |-> JsonResponse(req.method, resp.body)])

\* The caller's headers mapping after the call: `headers or {}` keeps a
\* non-empty mapping as the very object the setdefault calls then write to.
CallerHeadersAfter(self, headers) ==
    IF Truthy(headers) THEN PyDict(SetDefaults(self, headers)) ELSE headers

\* Client.request(method, endpoint, params, headers, data, json_data) on
\* `self`, the transport answering `resp`: what was sent, what came back,
\* how the call ended, and the caller's headers mapping afterwards.
Request(self, method, endpoint, params, headers, data, json_data, resp, build) ==
    LET req == SentRequest(self, method, endpoint, params, headers, data, json_data)
    IN  [sent |-> TransportCalls(req, resp),
         resp |-> resp,
         result |-> RequestOutcome(req, resp, build),
         headersAfter |-> CallerHeadersAfter(self, headers)]

\* Client.get / post / put / delete: delegations to Client.request
Get(self, endpoint, params, headers, resp, build) ==
    Request(self, "GET", endpoint, params, headers, PyNone, PyNone, resp, build)
Post(self, endpoint, data, params, headers, resp, build) ==
    Request(self, "POST", endpoint, params, headers, PyNone, data, resp, build)
Put(self, endpoint, data, params, headers, resp, build) ==
    Request(self, "PUT", endpoint, params, headers, PyNone, data, resp, build)
Delete(self, endpoint, params, headers, resp, build) ==
    Request(self, "DELETE", endpoint, params, headers, PyNone, PyNone, resp, build)

----------------------------------------------------------------------------
(* Domain wrappers: what a method does before it returns the client's      *)
(* result -- the exception its validation raises (exc), or the client call *)
(* it makes.                                                               *)

Reject(exc) ==
    [exc |-> exc, method |-> "", endpoint |-> <<>>, params |-> PyNone, data |-> PyNone]
ViaGet(endpoint, params) ==
    [exc |-> "", method |-> "GET", endpoint |-> endpoint, params |-> params, data |-> PyNone]
ViaPost(endpoint, data) ==
    [exc |-> "", method |-> "POST", endpoint |-> endpoint, params |-> PyNone, data |-> data]
ViaPut(endpoint, data) ==
    [exc |-> "", method |-> "PUT", endpoint |-> endpoint, params |-> PyNone, data |-> data]
ViaDelete(endpoint) ==
    [exc |-> "", method |-> "DELETE", endpoint |-> endpoint, params |-> PyNone, data |-> PyNone]

\* f"{v}": the text an f-string puts for a value
Fmt(v) ==
    CASE v.t = "str" -> v.s
      [] v.t = "int" -> <<ToString(v.n)>>
      [] v.t = "bool" -> IF v.b THEN <<"True">> ELSE <<"False">>
      [] v.t = "none" -> <<"None">>
      [] OTHER -> <<"[...]">>

\* The number an int (or bool) compares as
IntValue(v) == IF v.t = "bool" THEN (IF v.b THEN 1 ELSE 0) ELSE v.n

\* isinstance(x, dict) and k in x
HasKey(x, k) == x.t = "dict" /\ k \in DOMAIN x.d

(* Agent *)

Agent_list(page, page_size) ==
    ViaGet(<<"agents">>, PyDict(("pageno" :> page) @@ ("pagesize" :> page_size)))

Agent_get(agent_id) == ViaGet(<<"agents", "/">> \o Fmt(agent_id), PyNone)

Agent_create_TitleOnly(name, context_breakdown, kwargs) ==
    IF ~IsInstance(name, "str") THEN Reject("ValueError")
    ELSE IF ~IsInstance(context_breakdown, "list")
            \/ ~(\A i \in DOMAIN context_breakdown.items :
                    HasKey(context_breakdown.items[i], "title"))
    THEN Reject("ValueError")
    ELSE ViaPost(<<"agents", "/", "create">>,
                 PyDict(kwargs @@ ("name" :> name)
                        @@ ("context_breakdown" :> context_breakdown)))
Agent_create_AtAgents(name, context_breakdown, kwargs) ==
    IF ~IsInstance(name, "str") THEN Reject("ValueError")
    ELSE IF ~IsInstance(context_breakdown, "list")
            \/ ~(\A i \in DOMAIN context_breakdown.items :
                    /\ HasKey(context_breakdown.items[i], "title")
                    /\ HasKey(context_breakdown.items[i], "body"))
    THEN Reject("ValueError")
    ELSE ViaPost(<<"agents">>,
                 PyDict(kwargs @@ ("name" :> name)
                        @@ ("context_breakdown" :> context_breakdown)))
Agent_create(name, context_breakdown, kwargs) ==
    IF ~IsInstance(name, "str") THEN Reject("ValueError")
    ELSE IF ~IsInstance(context_breakdown, "list")
            \/ ~(\A i \in DOMAIN context_breakdown.items :
                    /\ HasKey(context_breakdown.items[i], "title")
                    /\ HasKey(context_breakdown.items[i], "body"))
    THEN Reject("ValueError")
    ELSE ViaPost(<<"agents", "/", "create">>,
                 PyDict(kwargs @@ ("name" :> name)
                        @@ ("context_breakdown" :> context_breakdown)))

Agent_update(agent_id, data) == ViaPut(<<"agents", "/">> \o Fmt(agent_id), data)

Agent_delete(agent_id) == ViaDelete(<<"agents", "/">> \o Fmt(agent_id))

(* Call *)

\* to_number[0] != '+' on a value that is not a str: the exception the
\* subscript raises, or the comparison's value
FirstIsNotPlus(to_number) ==
    CASE to_number.t = "list" ->
            IF to_number.items = <<>> THEN [exc |-> "IndexError", val |-> FALSE]
            ELSE [exc |-> "", val |-> to_number.items[1] # PyStr(<<"+">>)]
      [] to_number.t = "dict" -> [exc |-> "KeyError", val |-> FALSE]
      [] OTHER -> [exc |-> "TypeError", val |-> FALSE]

Call_dispatch_call(agent_id, to_number, call_context) ==
    IF ~IsInstance(agent_id, "int") THEN Reject("ValueError")
    ELSE IF ~IsInstance(to_number, "str") /\ FirstIsNotPlus(to_number).exc # ""
    THEN Reject(FirstIsNotPlus(to_number).exc)
    ELSE IF ~IsInstance(to_number, "str") /\ FirstIsNotPlus(to_number).val
    THEN Reject("ValueError")
    ELSE ViaPost(<<"calls", "/", "dispatch">>,
                 PyDict(("agent_id" :> agent_id) @@ ("to_number" :> to_number)
                        @@ ("call_context" :> call_context)))

Call_get_call_logs(page, page_size, agent_id) ==
    ViaGet(<<"calls", "/", "logs">>,
           PyDict(("pageno" :> page) @@ ("pagesize" :> page_size) @@ ("agentid" :> agent_id)))

Call_get_call_log(call_log_id) ==
    ViaGet(<<"calls", "/", "logs", "/">> \o Fmt(call_log_id), PyNone)

(* KnowledgeBase *)

\* str.lower() on the tokens of a file name
Lower(s) ==
    [i \in DOMAIN s |-> IF s[i] \in {".PDF", ".Pdf"} THEN ".pdf" ELSE s[i]]

KnowledgeBase_list == ViaGet(<<"knowledge_base", "/", "list">>, PyNone)

KnowledgeBase_create_Contains(file_data, filename) ==
    IF ~IsInstance(filename, "str") THEN Reject("AttributeError")
    ELSE IF \A i \in DOMAIN filename.s : Lower(filename.s)[i] # ".pdf"
    THEN Reject("ValueError")
    ELSE ViaPost(<<"knowledge_base", "/", "create">>,
                 PyDict(("file" :> file_data) @@ ("filename" :> filename)))
KnowledgeBase_create(file_data, filename) ==
    IF ~IsInstance(filename, "str") THEN Reject("AttributeError")
    ELSE IF filename.s = <<>> \/ Lower(filename.s)[Len(filename.s)] # ".pdf"
    THEN Reject("ValueError")
    ELSE ViaPost(<<"knowledge_base", "/", "create">>,
                 PyDict(("file" :> file_data) @@ ("filename" :> filename)))

KnowledgeBase_can_upload(file_size, file_type) ==
    ViaPost(<<"knowledge_base", "/", "can_upload">>,
            PyDict(("file_size" :> file_size) @@ ("file_type" :> file_type)))

KnowledgeBase_delete(file_id) ==
    ViaPost(<<"knowledge_base", "/", "delete">>, PyDict("file_id" :> file_id))

KnowledgeBase_attach(file_ids, agent_id, when_to_use) ==
    IF ~IsInstance(file_ids, "list") THEN Reject("ValueError")
    ELSE IF ~IsInstance(agent_id, "int") THEN Reject("ValueError")
    ELSE ViaPost(<<"knowledge_base", "/", "attach">>,
                 PyDict(("file_ids" :> file_ids) @@ ("agent_id" :> agent_id)
                        @@ ("when_to_use" :> when_to_use)))

KnowledgeBase_detach(file_ids, agent_id) ==
    IF ~IsInstance(file_ids, "list") THEN Reject("ValueError")
    ELSE IF ~IsInstance(agent_id, "int") THEN Reject("ValueError")
    ELSE ViaPost(<<"knowledge_base", "/", "detach">>,
                 PyDict(("file_ids" :> file_ids) @@ ("agent_id" :> agent_id)))

(* PhoneNumber *)

PhoneNumber_list(page, page_size) ==
    ViaGet(<<"phone_number", "/", "list">>,
           PyDict(("pageno" :> page) @@ ("pagesize" :> page_size)))

PhoneNumber_attach(phone_number_id, agent_id) ==
    IF ~IsInstance(phone_number_id, "int") THEN Reject("ValueError")
    ELSE IF ~IsInstance(agent_id, "int") THEN Reject("ValueError")
    ELSE ViaPost(<<"phone_number", "/", "attach">>,
                 PyDict(("phone_number_id" :> phone_number_id) @@ ("agent_id" :> agent_id)))

PhoneNumber_detach(phone_number_id) ==
    IF ~IsInstance(phone_number_id, "int") THEN Reject("ValueError")
    ELSE ViaPost(<<"phone_number", "/", "detach">>,
                 PyDict("phone_number_id" :> phone_number_id))

(* Integrations *)

Integrations_get_user_integrations == ViaGet(<<"integrations">>, PyNone)

RequiredKeys(param_type) ==
    CASE param_type = "headers" -> {"key", "value"}
      [] param_type \in {"query_params", "body_params"} -> {"key"}
      [] OTHER -> {}

\* Integrations._validate_integration_params: the exception raised, "" if none
ValidateIntegrationParams_KeysOnly(params_list, param_type) ==
    IF params_list = PyNone THEN ""
    ELSE IF ~IsInstance(params_list, "list") THEN "ValueError"
    ELSE IF \E i \in DOMAIN params_list.items :
                \/ ~IsInstance(params_list.items[i], "dict")
                \/ \E key \in RequiredKeys(param_type) : key \notin DOMAIN params_list.items[i].d
    THEN "ValueError"
    ELSE ""
ValidateIntegrationParams(params_list, param_type) ==
    IF params_list = PyNone THEN ""
    ELSE IF ~IsInstance(params_list, "list") THEN "ValueError"
    ELSE IF \E i \in DOMAIN params_list.items :
                \/ ~IsInstance(params_list.items[i], "dict")
                \/ \E key \in RequiredKeys(param_type) : key \notin DOMAIN params_list.items[i].d
    THEN "ValueError"
    ELSE IF /\ param_type \in {"query_params", "body_params"}
            /\ \E i \in DOMAIN params_list.items :
                LET param == params_list.items[i].d IN
                \/ "type" \in DOMAIN param /\ param["type"] \notin {PyStr(<<"string">>), PyStr(<<"number">>), PyStr(<<"boolean">>)}
                \/ "required" \in DOMAIN param /\ ~IsInstance(param["required"], "bool")
                \/ "isLLMGenerated" \in DOMAIN param
                   /\ ~IsInstance(param["isLLMGenerated"], "bool")
    THEN "ValueError"
    ELSE ""

\* The entry `key` of the payload when `value` is not None
Optional(key, value) == IF value = PyNone THEN EmptyMap ELSE key :> value

Integrations_create_custom_api_integration(name, url, method, description, headers, body_type, body_content, body_params, query_params, stop_listening, request_timeout) ==
    IF ~Truthy(name) \/ ~Truthy(url) \/ ~Truthy(method) THEN Reject("ValueError")
    ELSE IF ValidateIntegrationParams(headers, "headers") # "" THEN Reject("ValueError")
    ELSE IF ValidateIntegrationParams(query_params, "query_params") # ""
    THEN Reject("ValueError")
    ELSE IF ValidateIntegrationParams(body_params, "body_params") # ""
    THEN Reject("ValueError")
    ELSE ViaPost(<<"integrations", "/", "custom-api">>,
                 PyDict(("name" :> name) @@ ("url" :> url) @@ ("method" :> method)
                        @@ ("description" :> description)
                        @@ ("integration_type" :> PyStr(<<"custom_api">>))
                        @@ ("stop_listening" :> stop_listening)
                        @@ ("request_timeout" :> request_timeout)
                        @@ Optional("headers", headers)
                        @@ Optional("body_type", body_type)
                        @@ Optional("body_content", body_content)
                        @@ Optional("body_params", body_params)
                        @@ Optional("query_params", query_params)))

Integrations_create_cal_integration(name, cal_api_key, cal_id, cal_timezone, description) ==
    IF ~Truthy(name) \/ ~Truthy(cal_api_key) \/ ~Truthy(cal_id) \/ ~Truthy(cal_timezone)
    THEN Reject("ValueError")
    ELSE IF \/ ~IsInstance(name, "str") \/ ~IsInstance(cal_api_key, "str")
            \/ ~IsInstance(cal_id, "str") \/ ~IsInstance(cal_timezone, "str")
    THEN Reject("ValueError")
    ELSE ViaPost(<<"integrations", "/", "cal">>,
                 PyDict(("name" :> name) @@ ("cal_api_key" :> cal_api_key)
                        @@ ("cal_id" :> cal_id) @@ ("cal_timezone" :> cal_timezone)
                        @@ ("description" :> description)
                        @@ ("integration_type" :> PyStr(<<"cal">>))))

\* validation of d[key] when key is in the mapping d
ValidateIfPresent(d, key) ==
    IF key \in DOMAIN d THEN ValidateIntegrationParams(d[key], key) ELSE ""

Integrations_create_integration_from_json_AnyFields(integration_data) ==
    IF ~Truthy(integration_data) \/ ~IsInstance(integration_data, "dict")
    THEN Reject("ValueError")
    ELSE LET d == integration_data.d IN
    IF "integration_type" \notin DOMAIN d THEN Reject("ValueError")
    ELSE IF d["integration_type"] = PyStr(<<"custom_api">>)
    THEN IF \/ ValidateIfPresent(d, "headers") # ""
            \/ ValidateIfPresent(d, "query_params") # ""
            \/ ValidateIfPresent(d, "body_params") # ""
         THEN Reject("ValueError")
         ELSE ViaPost(<<"integrations", "/", "custom-api">>, integration_data)
    ELSE IF d["integration_type"] = PyStr(<<"cal">>)
    THEN ViaPost(<<"integrations", "/", "cal">>, integration_data)
    ELSE Reject("ValueError")
Integrations_create_integration_from_json(integration_data) ==
    IF ~Truthy(integration_data) \/ ~IsInstance(integration_data, "dict")
    THEN Reject("ValueError")
    ELSE LET d == integration_data.d IN
    IF "integration_type" \notin DOMAIN d THEN Reject("ValueError")
    ELSE IF d["integration_type"] = PyStr(<<"custom_api">>)
    THEN IF {"name", "url", "method"} \ DOMAIN d # {} THEN Reject("ValueError")
         ELSE IF \/ ValidateIfPresent(d, "headers") # ""
                 \/ ValidateIfPresent(d, "query_params") # ""
                 \/ ValidateIfPresent(d, "body_params") # ""
         THEN Reject("ValueError")
         ELSE ViaPost(<<"integrations", "/", "custom-api">>, integration_data)
    ELSE IF d["integration_type"] = PyStr(<<"cal">>)
    THEN IF {"name", "cal_api_key", "cal_id", "cal_timezone"} \ DOMAIN d # {}
         THEN Reject("ValueError")
         ELSE ViaPost(<<"integrations", "/", "cal">>, integration_data)
    ELSE Reject("ValueError")

\* not isinstance(x, int) or x <= 0
NotPositiveInt_AllowZero(x) == ~IsInstance(x, "int") \/ IntValue(x) < 0
NotPositiveInt(x) == ~IsInstance(x, "int") \/ IntValue(x) <= 0

Integrations_get_agent_integrations(agent_id) ==
    IF NotPositiveInt(agent_id) THEN Reject("ValueError")
    ELSE ViaGet(<<"agents", "/">> \o Fmt(agent_id) \o <<"/", "integrations">>, PyNone)

Integrations_add_integration_to_agent(agent_id, integration_id) ==
    IF NotPositiveInt(agent_id) THEN Reject("ValueError")
    ELSE IF NotPositiveInt(integration_id) THEN Reject("ValueError")
    ELSE ViaPost(<<"agents", "/">> \o Fmt(agent_id) \o <<"/", "integrations">>,
                 PyDict("integration_id" :> integration_id))

Integrations_remove_integration_from_agent(agent_id, integration_id) ==
    IF NotPositiveInt(agent_id) THEN Reject("ValueError")
    ELSE IF NotPositiveInt(integration_id) THEN Reject("ValueError")
    ELSE ViaDelete(<<"agents", "/">> \o Fmt(agent_id) \o <<"/", "integrations", "/">>
                   \o Fmt(integration_id))

(* Simulation *)

valid_providers ==
    {PyStr(<<"eleven_labs">>), PyStr(<<"deepgram">>), PyStr(<<"cartesia">>),
     PyStr(<<"rime">>), PyStr(<<"inworld">>)}

\* The checks on one entry of selected_voices
VoiceRejected_AnyProvider(voice) ==
    \/ ~IsInstance(voice, "dict")
    \/ "id" \notin DOMAIN voice.d
    \/ "provider" \notin DOMAIN voice.d
VoiceRejected(voice) ==
    \/ ~IsInstance(voice, "dict")
    \/ "id" \notin DOMAIN voice.d
    \/ "provider" \notin DOMAIN voice.d
    \/ voice.d["provider"] \notin valid_providers

\* The checks on one scenario
ScenarioRejected(scenario) ==
    \/ ~IsInstance(scenario, "dict")
    \/ \E field \in {"name", "description", "expected_result"} :
          field \notin DOMAIN scenario.d \/ ~IsInstance(scenario.d[field], "str")
    \/ /\ "selected_voices" \in DOMAIN scenario.d
       /\ LET voices == scenario.d["selected_voices"] IN
          \/ ~IsInstance(voices, "list")
          \/ \E j \in DOMAIN voices.items : VoiceRejected(voices.items[j])

\* Simulation._validate_scenarios: the exception raised, "" if none
ValidateScenarios(scenarios) ==
    IF ~IsInstance(scenarios, "list") THEN "ValueError"
    ELSE IF \E i \in DOMAIN scenarios.items : ScenarioRejected(scenarios.items[i])
    THEN "ValueError"
    ELSE ""

Simulation_create(name, agent_id, number_of_call_to_make, concurrent_call_count, max_call_duration_in_minutes, scenarios) ==
    IF ~Truthy(name) \/ ~IsInstance(name, "str") THEN Reject("ValueError")
    ELSE IF ~IsInstance(agent_id, "int") THEN Reject("ValueError")
    ELSE IF scenarios # PyNone /\ ValidateScenarios(scenarios) # "" THEN Reject("ValueError")
    ELSE ViaPost(<<"simulations">>,
                 PyDict(("name" :> name) @@ ("agent_id" :> agent_id)
                        @@ ("number_of_call_to_make" :> number_of_call_to_make)
                        @@ ("concurrent_call_count" :> concurrent_call_count)
                        @@ ("max_call_duration_in_minutes" :> max_call_duration_in_minutes)
                        @@ Optional("scenarios", scenarios)))

Simulation_list(pageno, pagesize) ==
    ViaGet(<<"simulations">>, PyDict(("pageno" :> pageno) @@ ("pagesize" :> pagesize)))

Simulation_get(simulation_id) ==
    IF ~IsInstance(simulation_id, "int") THEN Reject("ValueError")
    ELSE ViaGet(<<"simulations", "/">> \o Fmt(simulation_id), PyNone)

Simulation_update(simulation_id, data) ==
    IF ~IsInstance(simulation_id, "int") THEN Reject("ValueError")
    ELSE IF ~IsInstance(data, "dict") \/ ~Truthy(data) THEN Reject("ValueError")
    ELSE IF /\ "scenarios" \in DOMAIN data.d
            /\ data.d["scenarios"] # PyNone
            /\ ValidateScenarios(data.d["scenarios"]) # ""
    THEN Reject("ValueError")
    ELSE ViaPut(<<"simulations", "/">> \o Fmt(simulation_id), data)

Simulation_delete(simulation_id) ==
    IF ~IsInstance(simulation_id, "int") THEN Reject("ValueError")
    ELSE ViaDelete(<<"simulations", "/">> \o Fmt(simulation_id))

Simulation_start(simulation_id) ==
    IF ~IsInstance(simulation_id, "int") THEN Reject("ValueError")
    ELSE ViaPost(<<"simulations", "/">> \o Fmt(simulation_id) \o <<"/", "start">>,
                 PyDict(EmptyMap))

Simulation_stop(simulation_id) ==
    IF ~IsInstance(simulation_id, "int") THEN Reject("ValueError")
    ELSE ViaPost(<<"simulations", "/">> \o Fmt(simulation_id) \o <<"/", "stop">>, PyNone)

Simulation_enhance_prompt(simulation_id) ==
    IF ~IsInstance(simulation_id, "int") THEN Reject("ValueError")
    ELSE ViaPost(<<"simulations", "/">> \o Fmt(simulation_id) \o <<"/", "enhance-prompt">>,
                 PyNone)

----------------------------------------------------------------------------
(* Inputs *)

Key(n, l, r) == PyStr(Repeat(" ", l) \o Repeat("k", n) \o Repeat(" ", r))

Base == <<"https:", "/", "/", "x", "/", "api", "/", "v1">>

\* The keys the command line is given: a key of the least length, a longer
\* one, one too short for Client, an empty one
CliKeys == {Key(MinKeyLen, 0, 0), Key(MinKeyLen + 1, 0, 0), Key(1, 0, 0), PyStr(<<>>)}

\* What the transport answers to the commands: no connection, an object
\* with an id, an empty body, a 404 with an error object. (Every body here
\* is JSON or empty, so the json() failure and its exception do not arise.)
CliOutcomes ==
    {ConnectionFailure,
     [conn |-> FALSE, status |-> 200, body |-> Body("object", "id" :> FieldValue("id"))],
     [conn |-> FALSE, status |-> 200, body |-> Body("empty", EmptyMap)],
     [conn |-> FALSE, status |-> 404, body |-> Body("object", "error" :> FieldValue("error"))]}

Endpoints == {Repeat("/", n) \o <<"agents", "/", "42">> : n \in 0..MaxSlash}

HeaderArgs ==
    {PyNone, PyDict(EmptyMap)}
    \cup {PyDict([k \in ks |-> PyStr(<<"caller">>)]) :
            ks \in {{"Authorization"}, {"Content-Type"}, {"Accept"}, {"X-Trace"},
                    {"Authorization", "Content-Type", "Accept"},
                    {"Accept", "X-Trace"}}}

JsonArgs == {PyNone, PyDict([k \in {"name"} |-> PyStr(<<"W">>)])}

\* The transport outcomes the wrappers are exercised with
WrapperOutcomes ==
    {ConnectionFailure}
    \cup {[conn |-> FALSE, status |-> 200, body |-> b] :
            b \in {Body("object", "id" :> FieldValue("id")), Body("empty", EmptyMap),
                   Body("text", EmptyMap)}}
    \cup {[conn |-> FALSE, status |-> 404, body |-> Body("object", "error" :> FieldValue("error"))],
          [conn |-> FALSE, status |-> 500, body |-> Body("text", EmptyMap)]}

\* Tuples over S of length at most n
ListsOf(S, n) == UNION {[1..k -> S] : k \in 0..n}

Text(tok) == PyStr(<<tok>>)

Ids ==
    {PyInt(n) : n \in (0 - 1)..MaxId}
    \cup {Text("1"), PyNone, PyBool(TRUE), PyBool(FALSE)}

Names == {Text("W"), PyStr(<<>>), PyInt(5), PyNone}

FileIdLists ==
    {PyList(xs) : xs \in ListsOf({PyInt(1), Text("a")}, MaxList)}
    \cup {PyNone, PyInt(1), Text("1")}

\* Entries of headers / query_params / body_params
ParamLists ==
    LET ParamEntries ==
            {PyDict([k \in ks |-> Text("k")] @@ ty @@ rq @@ llm) :
                ks \in SUBSET {"key", "value"},
                ty \in {EmptyMap, "type" :> Text("string"), "type" :> Text("float")},
                rq \in {EmptyMap, "required" :> PyBool(TRUE), "required" :> Text("yes")},
                llm \in {EmptyMap, "isLLMGenerated" :> PyBool(FALSE), "isLLMGenerated" :> PyInt(1)}}
            \cup {Text("key")}
        CoreParamEntries ==
            {PyDict(("key" :> Text("k")) @@ ("value" :> Text("v"))),
             PyDict(("key" :> Text("q")) @@ ("type" :> Text("string")) @@ ("required" :> PyBool(TRUE))
                    @@ ("isLLMGenerated" :> PyBool(TRUE))),
             PyDict(("key" :> Text("q")) @@ ("type" :> Text("float")))}
    IN  {PyList(<<e>>) : e \in ParamEntries}
        \cup {PyList(xs) : xs \in ListsOf(CoreParamEntries, MaxList)}
        \cup {PyNone, Text("key")}

ParamKinds == {"headers", "query_params", "body_params"}

IntegrationDatas ==
    LET IntegrationTypes ==
            {EmptyMap} \cup {"integration_type" :> v :
                                v \in {Text("custom_api"), Text("cal"), Text("zapier"), PyNone}}
    IN  {PyNone, PyDict(EmptyMap), PyList(<<Text("custom_api")>>), Text("custom_api")}
        \cup {PyDict(ty @@ [k \in ks |-> Text("v")] @@ extra) :
                ty \in IntegrationTypes,
                ks \in SUBSET {"name", "url", "method", "cal_api_key", "cal_id", "cal_timezone"},
                extra \in {EmptyMap,
                           "headers" :> PyList(<<PyDict("key" :> Text("k"))>>),
                           "headers" :> PyList(<<PyDict(("key" :> Text("k")) @@ ("value" :> Text("v")))>>),
                           "query_params" :> PyList(<<PyDict(("key" :> Text("q")) @@ ("type" :> Text("float")))>>),
                           "body_params" :> PyNone}}

VoiceLists ==
    LET Providers ==
            valid_providers \cup {Text("play_ht"), Text("azure"), PyNone}
        Voices ==
            {Text("v"), PyDict(EmptyMap), PyDict("id" :> Text("voice_id_1")),
             PyDict("provider" :> Text("eleven_labs"))}
            \cup {PyDict(("id" :> Text("voice_id_1")) @@ ("provider" :> p)) : p \in Providers}
        CoreVoices ==
            {PyDict(("id" :> Text("voice_id_1")) @@ ("provider" :> Text("eleven_labs"))),
             PyDict(("id" :> Text("voice_id_2")) @@ ("provider" :> Text("play_ht"))),
             PyDict(("id" :> Text("voice_id_3")) @@ ("provider" :> Text("deepgram")))}
    IN  {PyList(<<v>>) : v \in Voices}
        \cup {PyList(xs) : xs \in ListsOf(CoreVoices, MaxList)}
        \cup {PyNone, Text("v")}

PlainScenario ==
    PyDict(("name" :> Text("text")) @@ ("description" :> Text("text"))
           @@ ("expected_result" :> Text("text")))

ScenarioLists ==
    LET ScenarioField(k) == {EmptyMap, k :> Text("text"), k :> PyInt(5)}
        Scenarios ==
            {PyDict(n @@ d @@ e @@ v) :
                n \in ScenarioField("name"), d \in ScenarioField("description"),
                e \in ScenarioField("expected_result"),
                v \in {EmptyMap} \cup {"selected_voices" :> vs : vs \in VoiceLists}}
            \cup {Text("scenario")}
        CoreScenarios ==
            {PlainScenario,
             PyDict(PlainScenario.d @@ ("selected_voices" :> PyList(<<
                PyDict(("id" :> Text("voice_id_1")) @@ ("provider" :> Text("eleven_labs")))>>))),
             PyDict("name" :> Text("text"))}
    IN  {PyList(<<sc>>) : sc \in Scenarios}
        \cup {PyList(xs) : xs \in ListsOf(CoreScenarios, MaxList)}
        \cup {Text("scenario"), PyDict(EmptyMap)}

SimulationDatas ==
    {PyNone, PyDict(EmptyMap), PyList(<<PlainScenario>>), PyDict("name" :> Text("W")),
     PyDict("scenarios" :> PyNone)}
    \cup {PyDict(("name" :> Text("W")) @@ ("scenarios" :> sl)) : sl \in ScenarioLists}

----------------------------------------------------------------------------
(* The state machine *)

\* No transport call was made
NoCall == [conn |-> FALSE, status |-> 0 - 1, body |-> Body("empty", EmptyMap)]

Idle ==
    [op |-> "idle", args |-> EmptyMap, sent |-> <<>>, resp |-> NoCall,
     result |-> Returned(NoEnvelope), headersAfter |-> PyNone, entered |-> FALSE]

\* Client.__init__: no domain wrapper is built yet; `made` counts the wrapper
\* objects built so far (the identity of the next one), `gets` the property
\* reads, `accessed` and `returned` are the last read and what it gave
WrapperNames ==
    {"agent", "call", "integrations", "knowledge_base", "phone_number", "simulation"}

NoWrappers ==
    [fields |-> [n \in WrapperNames |-> PyNone], made |-> 0, gets |-> 0,
     accessed |-> "", returned |-> PyNone]

\* The configuration before any command: no config.json (load_config gives
\* {}), neither OMNIDIM_API_KEY nor OMNIDIMENSION_API_KEY in the
\* environment; key_set and url_set are the values set last (None if none)
NoConfig ==
    [file |-> EmptyMap, env |-> [OMNIDIM_API_KEY |-> PyNone, OMNIDIMENSION_API_KEY |-> PyNone],
     key_set |-> PyNone, url_set |-> PyNone]

\* No command was run
NoCommand ==
    [cmd |-> "", force |-> FALSE, file |-> "", answer |-> "", calls |-> <<>>, exit |-> 0,
     report |-> ""]

\* The caller is between two calls, has calls left to make and holds a
\* client to make them on
CanCall == ops < MaxOps /\ last.op = "idle" /\ client.constructed

\* An operation that went through Client.request
Through_Rebase(op, args, r) ==
    /\ ops' = ops + 1
    /\ reqCalls' = reqCalls + 1
    /\ netCalls' = netCalls + Len(r.sent)
    /\ last' = [op |-> op, args |-> args, sent |-> r.sent, resp |-> r.resp,
                result |-> r.result,
                headersAfter |-> r.headersAfter, entered |-> TRUE]
    /\ client' = [client EXCEPT !.base_url = r.sent[1].url]
    /\ UNCHANGED <<wrappers, config, shell, menu>>
Through(op, args, r) ==
    /\ ops' = ops + 1
    /\ reqCalls' = reqCalls + 1
    /\ netCalls' = netCalls + Len(r.sent)
    /\ last' = [op |-> op, args |-> args, sent |-> r.sent, resp |-> r.resp,
                result |-> r.result,
                headersAfter |-> r.headersAfter, entered |-> TRUE]
    /\ UNCHANGED <<client, wrappers, config, shell, menu>>

\* An operation that raised before it reached Client.request
Rejected(op, args, exc) ==
    /\ ops' = ops + 1
    /\ last' = [op |-> op, args |-> args, sent |-> <<>>, resp |-> NoCall,
                result |-> Raised(exc, 0 - 1, PyNone, PyNone),
                headersAfter |-> PyNone, entered |-> FALSE]
    /\ UNCHANGED <<client, reqCalls, netCalls, wrappers, config, shell, menu>>

\* Client(api_key, base_url)
Construct ==
    /\ ops < MaxOps
    /\ last.op = "idle"
    /\ \E api_key \in {Key(n, l, r) : n \in 0..MaxKeyLen, l \in 0..MaxPad, r \in 0..MaxPad}
                        \cup {PyNone, PyInt(0), PyInt(12345678), PyList(<<>>), PyBool(TRUE)},
          base_url \in {Base \o Repeat("/", n) : n \in 0..MaxSlash}
                        \cup {Repeat("/", n) : n \in 0..MaxSlash}
                        \cup {DefaultBaseUrl} :
        LET c == ClientInit(api_key, base_url) IN
        /\ ops' = ops + 1
        /\ client' = IF c.exc = "" THEN c.obj ELSE client
        /\ last' = [op |-> "Client", args |-> ("api_key" :> api_key) @@ ("base_url" :> PyStr(base_url)),
                    sent |-> <<>>, resp |-> NoCall,
                    result |-> IF c.exc = "" THEN Returned(NoEnvelope)
                               ELSE Raised(c.exc, 0 - 1, PyNone, PyNone),
                    headersAfter |-> PyNone, entered |-> FALSE]
        /\ wrappers' = IF c.exc = "" THEN NoWrappers ELSE wrappers
        /\ UNCHANGED <<reqCalls, netCalls, config, shell, menu>>

ClientRequest ==
    /\ CanCall
    /\ \E method \in {"GET", "POST", "PUT", "DELETE", "delete"}, endpoint \in Endpoints, headers \in HeaderArgs,
       json_data \in JsonArgs, resp \in TransportOutcomes, build \in Builds :
        Through("Client.request",
                   ("method" :> PyStr(<<method>>)) @@ ("endpoint" :> PyStr(endpoint))
                       @@ ("headers" :> headers) @@ ("json_data" :> json_data),
                   Request(client, method, endpoint, PyNone, headers, PyNone, json_data,
                           resp, build))

ClientGet ==
    /\ CanCall
    /\ \E endpoint \in Endpoints, params \in {PyNone, PyDict([k \in {"pageno"} |-> PyInt(1)])}, headers \in HeaderArgs,
       resp \in TransportOutcomes, build \in Builds :
        Through("Client.get",
                   ("endpoint" :> PyStr(endpoint)) @@ ("params" :> params) @@ ("headers" :> headers),
                   Get(client, endpoint, params, headers, resp, build))

ClientPost ==
    /\ CanCall
    /\ \E endpoint \in Endpoints, data \in JsonArgs, headers \in HeaderArgs,
       resp \in TransportOutcomes, build \in Builds :
        Through("Client.post",
                   ("endpoint" :> PyStr(endpoint)) @@ ("data" :> data) @@ ("headers" :> headers),
                   Post(client, endpoint, data, PyNone, headers, resp, build))

ClientPut ==
    /\ CanCall
    /\ \E endpoint \in Endpoints, data \in JsonArgs, headers \in HeaderArgs,
       resp \in TransportOutcomes, build \in Builds :
        Through("Client.put",
                   ("endpoint" :> PyStr(endpoint)) @@ ("data" :> data) @@ ("headers" :> headers),
                   Put(client, endpoint, data, PyNone, headers, resp, build))

ClientDelete ==
    /\ CanCall
    /\ \E endpoint \in Endpoints, headers \in HeaderArgs,
       resp \in TransportOutcomes, build \in Builds :
        Through("Client.delete",
                   ("endpoint" :> PyStr(endpoint)) @@ ("headers" :> headers),
                   Delete(client, endpoint, PyNone, headers, resp, build))

\* The client call a wrapper ends with
Dispatch(self, plan, resp, build) ==
    CASE plan.method = "GET" -> Get(self, plan.endpoint, plan.params, PyNone, resp, build)
      [] plan.method = "POST" -> Post(self, plan.endpoint, plan.data, PyNone, PyNone, resp, build)
      [] plan.method = "PUT" -> Put(self, plan.endpoint, plan.data, PyNone, PyNone, resp, build)
      [] plan.method = "DELETE" -> Delete(self, plan.endpoint, PyNone, PyNone, resp, build)

\* A call of a wrapper method: its validation raises, or it returns what
\* the client call returns or raises
Wrapper_Reenvelope(op, args, plan) ==
    IF plan.exc # ""
    THEN Rejected(op, args, plan.exc)
    ELSE \E resp \in WrapperOutcomes, build \in Builds :
            LET r == Dispatch(client, plan, resp, build) IN
            Through(op, args,
                    [r EXCEPT !.result =
                        IF r.result.exc # "" THEN r.result
                        ELSE Returned([status |-> r.result.envelope.status,
                                       json |-> PyDict("data" :> r.result.envelope.json)])])
Wrapper(op, args, plan) ==
    IF plan.exc # ""
    THEN Rejected(op, args, plan.exc)
    ELSE \E resp \in WrapperOutcomes, build \in Builds :
            Through(op, args, Dispatch(client, plan, resp, build))

AgentList ==
    /\ CanCall
    /\ \E page \in {PyInt(1)}, page_size \in {PyInt(1)} :
        Wrapper("Agent.list", ("page" :> page) @@ ("page_size" :> page_size),
                Agent_list(page, page_size))

AgentGet ==
    /\ CanCall
    /\ \E agent_id \in Ids :
        Wrapper("Agent.get", "agent_id" :> agent_id, Agent_get(agent_id))

AgentCreate ==
    /\ CanCall
    /\ \E name \in Names,
          context_breakdown \in
             {PyList(xs) :
                xs \in ListsOf({PyDict([k \in ks |-> Text("t")]) : ks \in SUBSET {"title", "body"}}
                               \cup {Text("title")}, MaxList)}
             \cup {PyNone, PyDict(("title" :> Text("t")) @@ ("body" :> Text("t")))},
          kwargs \in {EmptyMap, "welcome_message" :> Text("hi")} :
        Wrapper("Agent.create",
                ("name" :> name) @@ ("context_breakdown" :> context_breakdown)
                @@ ("kwargs" :> PyDict(kwargs)),
                Agent_create(name, context_breakdown, kwargs))

AgentUpdate ==
    /\ CanCall
    /\ \E agent_id \in Ids, data \in JsonArgs :
        Wrapper("Agent.update", ("agent_id" :> agent_id) @@ ("data" :> data),
                Agent_update(agent_id, data))

AgentDelete ==
    /\ CanCall
    /\ \E agent_id \in Ids :
        Wrapper("Agent.delete", "agent_id" :> agent_id, Agent_delete(agent_id))

CallDispatchCall ==
    /\ CanCall
    /\ \E agent_id \in Ids,
          to_number \in {PyStr(<<"+", "15551234567">>), PyStr(<<"15551234567">>), PyStr(<<>>),
                         PyInt(5), PyNone, PyList(<<>>), PyList(<<Text("1")>>),
                         PyList(<<Text("+")>>), PyDict(EmptyMap)} :
        Wrapper("Call.dispatch_call",
                ("agent_id" :> agent_id) @@ ("to_number" :> to_number),
                Call_dispatch_call(agent_id, to_number, PyDict(EmptyMap)))

CallGetCallLogs ==
    /\ CanCall
    /\ \E page \in {PyInt(1)}, agent_id \in {PyNone, PyInt(1)} :
        Wrapper("Call.get_call_logs", ("page" :> page) @@ ("agent_id" :> agent_id),
                Call_get_call_logs(page, PyInt(30), agent_id))

CallGetCallLog ==
    /\ CanCall
    /\ \E call_log_id \in Ids :
        Wrapper("Call.get_call_log", "call_log_id" :> call_log_id,
                Call_get_call_log(call_log_id))

KnowledgeBaseList ==
    /\ CanCall
    /\ Wrapper("KnowledgeBase.list", EmptyMap, KnowledgeBase_list)

KnowledgeBaseCreate ==
    /\ CanCall
    /\ \E filename \in {PyStr(<<"doc", ".pdf">>), PyStr(<<"doc", ".PDF">>), PyStr(<<"doc", ".txt">>),
                         PyStr(<<"doc", ".pdf", ".txt">>), PyStr(<<"docpdf">>), PyStr(<<>>),
                         PyNone, PyInt(5)} :
        Wrapper("KnowledgeBase.create",
                ("file_data" :> Text("JVBERi0=")) @@ ("filename" :> filename),
                KnowledgeBase_create(Text("JVBERi0="), filename))

KnowledgeBaseCanUpload ==
    /\ CanCall
    /\ \E file_size \in Ids :
        Wrapper("KnowledgeBase.can_upload", "file_size" :> file_size,
                KnowledgeBase_can_upload(file_size, Text("pdf")))

KnowledgeBaseDelete ==
    /\ CanCall
    /\ \E file_id \in Ids :
        Wrapper("KnowledgeBase.delete", "file_id" :> file_id, KnowledgeBase_delete(file_id))

KnowledgeBaseAttach ==
    /\ CanCall
    /\ \E file_ids \in FileIdLists, agent_id \in Ids :
        Wrapper("KnowledgeBase.attach",
                ("file_ids" :> file_ids) @@ ("agent_id" :> agent_id),
                KnowledgeBase_attach(file_ids, agent_id, PyNone))

KnowledgeBaseDetach ==
    /\ CanCall
    /\ \E file_ids \in FileIdLists, agent_id \in Ids :
        Wrapper("KnowledgeBase.detach",
                ("file_ids" :> file_ids) @@ ("agent_id" :> agent_id),
                KnowledgeBase_detach(file_ids, agent_id))

PhoneNumberList ==
    /\ CanCall
    /\ \E page \in {PyInt(1)}, page_size \in {PyInt(1)} :
        Wrapper("PhoneNumber.list", ("page" :> page) @@ ("page_size" :> page_size),
                PhoneNumber_list(page, page_size))

PhoneNumberAttach ==
    /\ CanCall
    /\ \E phone_number_id \in Ids, agent_id \in Ids :
        Wrapper("PhoneNumber.attach",
                ("phone_number_id" :> phone_number_id) @@ ("agent_id" :> agent_id),
                PhoneNumber_attach(phone_number_id, agent_id))

PhoneNumberDetach ==
    /\ CanCall
    /\ \E phone_number_id \in Ids :
        Wrapper("PhoneNumber.detach", "phone_number_id" :> phone_number_id,
                PhoneNumber_detach(phone_number_id))

IntegrationsGetUserIntegrations ==
    /\ CanCall
    /\ Wrapper("Integrations.get_user_integrations", EmptyMap,
               Integrations_get_user_integrations)

\* the argument of kind `kind` is `list`, the two other lists are `other`
ParamArg(kind, chosen, list, other) == IF kind = chosen THEN list ELSE other

CustomApiCall(name, url, method, headers, body_type, body_params, query_params) ==
    Wrapper("Integrations.create_custom_api_integration",
            ("name" :> name) @@ ("url" :> url) @@ ("method" :> method)
            @@ ("headers" :> headers) @@ ("body_type" :> body_type)
            @@ ("body_params" :> body_params) @@ ("query_params" :> query_params),
            Integrations_create_custom_api_integration(
                name, url, method, PyStr(<<>>), headers, body_type, PyNone, body_params,
                query_params, PyBool(FALSE), PyInt(10)))

IntegrationsCreateCustomApiIntegration ==
    /\ CanCall
    /\ \/ \E name \in Names, url \in {PyStr(<<"http:", "/", "/", "x">>), PyStr(<<>>)},
             method \in {Text("GET"), PyNone}, body_type \in {PyNone, Text("json")} :
            CustomApiCall(name, url, method, PyNone, body_type, PyNone, PyNone)
       \/ \E chosen \in ParamKinds, list \in ParamLists,
             other \in {PyNone, PyList(<<PyDict(("key" :> Text("k")) @@ ("value" :> Text("v")))>>)} :
            CustomApiCall(Text("W"), PyStr(<<"http:", "/", "/", "x">>), Text("GET"),
                          ParamArg("headers", chosen, list, other), PyNone,
                          ParamArg("body_params", chosen, list, other),
                          ParamArg("query_params", chosen, list, other))

IntegrationsCreateCalIntegration ==
    /\ CanCall
    /\ \E name \in Names, cal_api_key \in Names, cal_id \in Names,
          cal_timezone \in Names :
        Wrapper("Integrations.create_cal_integration",
                ("name" :> name) @@ ("cal_api_key" :> cal_api_key) @@ ("cal_id" :> cal_id)
                @@ ("cal_timezone" :> cal_timezone),
                Integrations_create_cal_integration(name, cal_api_key, cal_id, cal_timezone,
                                                    PyStr(<<>>)))

IntegrationsCreateIntegrationFromJson ==
    /\ CanCall
    /\ \E integration_data \in IntegrationDatas :
        Wrapper("Integrations.create_integration_from_json",
                "integration_data" :> integration_data,
                Integrations_create_integration_from_json(integration_data))

IntegrationsGetAgentIntegrations ==
    /\ CanCall
    /\ \E agent_id \in Ids :
        Wrapper("Integrations.get_agent_integrations", "agent_id" :> agent_id,
                Integrations_get_agent_integrations(agent_id))

IntegrationsAddIntegrationToAgent ==
    /\ CanCall
    /\ \E agent_id \in Ids, integration_id \in Ids :
        Wrapper("Integrations.add_integration_to_agent",
                ("agent_id" :> agent_id) @@ ("integration_id" :> integration_id),
                Integrations_add_integration_to_agent(agent_id, integration_id))

IntegrationsRemoveIntegrationFromAgent ==
    /\ CanCall
    /\ \E agent_id \in Ids, integration_id \in Ids :
        Wrapper("Integrations.remove_integration_from_agent",
                ("agent_id" :> agent_id) @@ ("integration_id" :> integration_id),
                Integrations_remove_integration_from_agent(agent_id, integration_id))

SimulationCall(name, agent_id, scenarios) ==
    Wrapper("Simulation.create",
            ("name" :> name) @@ ("agent_id" :> agent_id) @@ ("scenarios" :> scenarios),
            Simulation_create(name, agent_id, PyInt(1), PyInt(3), PyInt(3), scenarios))

SimulationCreate ==
    /\ CanCall
    /\ \/ \E name \in Names, agent_id \in Ids,
             scenarios \in {PyNone, PyList(<<PlainScenario>>), Text("scenario")} :
            SimulationCall(name, agent_id, scenarios)
       \/ \E scenarios \in ScenarioLists :
            SimulationCall(Text("W"), PyInt(1), scenarios)

SimulationList ==
    /\ CanCall
    /\ \E pageno \in {PyInt(1)}, pagesize \in {PyInt(1)} :
        Wrapper("Simulation.list", ("pageno" :> pageno) @@ ("pagesize" :> pagesize),
                Simulation_list(pageno, pagesize))

SimulationGet ==
    /\ CanCall
    /\ \E simulation_id \in Ids :
        Wrapper("Simulation.get", "simulation_id" :> simulation_id,
                Simulation_get(simulation_id))

SimulationUpdate ==
    /\ CanCall
    /\ \/ \E simulation_id \in Ids, data \in {PyNone, PyDict(EmptyMap), PyDict("name" :> Text("W"))} :
            Wrapper("Simulation.update",
                    ("simulation_id" :> simulation_id) @@ ("data" :> data),
                    Simulation_update(simulation_id, data))
       \/ \E data \in SimulationDatas :
            Wrapper("Simulation.update",
                    ("simulation_id" :> PyInt(1)) @@ ("data" :> data),
                    Simulation_update(PyInt(1), data))

SimulationDelete ==
    /\ CanCall
    /\ \E simulation_id \in Ids :
        Wrapper("Simulation.delete", "simulation_id" :> simulation_id,
                Simulation_delete(simulation_id))

SimulationStart ==
    /\ CanCall
    /\ \E simulation_id \in Ids :
        Wrapper("Simulation.start", "simulation_id" :> simulation_id,
                Simulation_start(simulation_id))

SimulationStop ==
    /\ CanCall
    /\ \E simulation_id \in Ids :
        Wrapper("Simulation.stop", "simulation_id" :> simulation_id,
                Simulation_stop(simulation_id))

SimulationEnhancePrompt ==
    /\ CanCall
    /\ \E simulation_id \in Ids :
        Wrapper("Simulation.enhance_prompt", "simulation_id" :> simulation_id,
                Simulation_enhance_prompt(simulation_id))

\* The caller has handled the result of its last call and goes on
Continue ==
    /\ last.op # "idle"
    /\ last' = Idle
    /\ UNCHANGED <<client, netCalls, reqCalls, ops, wrappers, config, shell, menu>>

\* Client.agent / call / integrations / knowledge_base / phone_number /
\* simulation: the property builds the wrapper on `self` when the field is
\* None, and returns the field
ClientProperty_Rebuild ==
    /\ last.op = "idle"
    /\ client.constructed
    /\ wrappers.gets < MaxGets
    /\ \E name \in WrapperNames :
        LET built == [cls |-> name, id |-> wrappers.made + 1, client |-> client]
        IN  wrappers' = [fields |-> [wrappers.fields EXCEPT ![name] = built],
                         made |-> wrappers.made + 1,
                         gets |-> wrappers.gets + 1,
                         accessed |-> name,
                         returned |-> built]
    /\ UNCHANGED <<client, netCalls, reqCalls, ops, last, config, shell, menu>>
ClientProperty ==
    /\ last.op = "idle"
    /\ client.constructed
    /\ wrappers.gets < MaxGets
    /\ \E name \in WrapperNames :
        LET isNone == wrappers.fields[name] = PyNone
            field == IF isNone
                     THEN [cls |-> name, id |-> wrappers.made + 1, client |-> client]
                     ELSE wrappers.fields[name]
        IN  wrappers' = [fields |-> [wrappers.fields EXCEPT ![name] = field],
                         made |-> IF isNone THEN wrappers.made + 1 ELSE wrappers.made,
                         gets |-> wrappers.gets + 1,
                         accessed |-> name,
                         returned |-> field]
    /\ UNCHANGED <<client, netCalls, reqCalls, ops, last, config, shell, menu>>

InitNew ==
    /\ client = NoClient
    /\ netCalls = 0
    /\ reqCalls = 0
    /\ ops = 0
    /\ last = Idle
    /\ wrappers = NoWrappers
    /\ config = NoConfig
    /\ shell = NoCommand
    /\ menu = [at |-> "shell", choice |-> "", raised |-> ""]

NextNew == Construct \/ Continue

\* Construction of clients
SpecNew == InitNew /\ [][NextNew]_vars

Init ==
    /\ client \in {ClientInit(k, b).obj : k \in {Key(MinKeyLen, 0, 0), Key(MinKeyLen, 1, 0)},
                                         b \in {Base \o Repeat("/", n) : n \in 0..MaxSlash}}
    /\ netCalls = 0
    /\ reqCalls = 0
    /\ ops = 0
    /\ last = Idle
    /\ wrappers = NoWrappers
    /\ config = NoConfig
    /\ shell = NoCommand
    /\ menu = [at |-> "shell", choice |-> "", raised |-> ""]

Next ==
    \/ ClientRequest
    \/ ClientGet
    \/ ClientPost
    \/ ClientPut
    \/ ClientDelete
    \/ AgentList
    \/ AgentGet
    \/ AgentCreate
    \/ AgentUpdate
    \/ AgentDelete
    \/ CallDispatchCall
    \/ CallGetCallLogs
    \/ CallGetCallLog
    \/ KnowledgeBaseList
    \/ KnowledgeBaseCreate
    \/ KnowledgeBaseCanUpload
    \/ KnowledgeBaseDelete
    \/ KnowledgeBaseAttach
    \/ KnowledgeBaseDetach
    \/ PhoneNumberList
    \/ PhoneNumberAttach
    \/ PhoneNumberDetach
    \/ IntegrationsGetUserIntegrations
    \/ IntegrationsCreateCustomApiIntegration
    \/ IntegrationsCreateCalIntegration
    \/ IntegrationsCreateIntegrationFromJson
    \/ IntegrationsGetAgentIntegrations
    \/ IntegrationsAddIntegrationToAgent
    \/ IntegrationsRemoveIntegrationFromAgent
    \/ SimulationCreate
    \/ SimulationList
    \/ SimulationGet
    \/ SimulationUpdate
    \/ SimulationDelete
    \/ SimulationStart
    \/ SimulationStop
    \/ SimulationEnhancePrompt
    \/ Continue

Spec == Init /\ [][Next]_vars

NextLazy == ClientProperty \/ AgentList \/ Continue

\* Reads of the wrapper properties of one client, between its requests
SpecLazy == Init /\ [][NextLazy]_vars

----------------------------------------------------------------------------
(* The command line: configuration *)

\* dict.get(key, default) on the dict load_config returns
FileGet(cfg, key, default) == IF key \in DOMAIN cfg.file THEN cfg.file[key] ELSE default

\* CLIConfig.get_api_key: the first of OMNIDIM_API_KEY, OMNIDIMENSION_API_KEY
\* that is set and not empty, else the api_key of config.json, else None
CLIConfig_get_api_key(cfg) ==
    IF Truthy(cfg.env.OMNIDIM_API_KEY) THEN cfg.env.OMNIDIM_API_KEY
    ELSE IF Truthy(cfg.env.OMNIDIMENSION_API_KEY) THEN cfg.env.OMNIDIMENSION_API_KEY
    ELSE FileGet(cfg, "api_key", PyNone)

\* CLIConfig.get_base_url
CLIConfig_get_base_url(cfg) == FileGet(cfg, "base_url", PyStr(DefaultBaseUrl))

\* CLIConfig.set_api_key / set_base_url: load the dict, set the entry, save
\* it; `saved` is whether save_config could write the file. key_set and
\* url_set remember the value of the last call that returned True.
CLIConfig_set_api_key(cfg, api_key, saved) ==
    IF saved
    THEN [cfg EXCEPT !.file = ("api_key" :> api_key) @@ cfg.file, !.key_set = api_key]
    ELSE cfg

CLIConfig_set_base_url_Fresh(cfg, url, saved) ==
    IF saved
    THEN [cfg EXCEPT !.file = "base_url" :> url, !.url_set = url]
    ELSE cfg
CLIConfig_set_base_url(cfg, url, saved) ==
    IF saved
    THEN [cfg EXCEPT !.file = ("base_url" :> url) @@ cfg.file, !.url_set = url]
    ELSE cfg

\* `omnidim config [--show] [--set-key K] [--set-url U]`
ConfigCommand ==
    /\ ops < MaxCmds
    /\ menu.at = "shell"
    /\ \E show \in BOOLEAN, set_key \in {PyNone} \cup CliKeys, set_url \in {PyNone, PyStr(Base), PyStr(Base \o <<"/">>)} :
       \E saved \in IF ~show /\ (Truthy(set_key) \/ Truthy(set_url)) THEN BOOLEAN ELSE {TRUE} :
        LET setsKey == ~show /\ Truthy(set_key)
            setsUrl == ~show /\ ~Truthy(set_key) /\ Truthy(set_url)
        IN  /\ config' = IF setsKey THEN CLIConfig_set_api_key(config, set_key, saved)
                         ELSE IF setsUrl THEN CLIConfig_set_base_url(config, set_url, saved)
                         ELSE config
            /\ shell' = [NoCommand EXCEPT !.cmd = "config",
                            !.report = IF setsKey /\ saved THEN "API key saved"
                                       ELSE IF setsUrl /\ saved THEN "Base URL set"
                                       ELSE IF setsKey \/ setsUrl THEN "Error saving config"
                                       ELSE "shown"]
    /\ ops' = ops + 1
    /\ UNCHANGED <<client, netCalls, reqCalls, last, wrappers, menu>>

----------------------------------------------------------------------------
(* The command line: commands *)

\* get_client(): a Client built from the configuration; typer.Exit(1) when
\* no api key is found or Client raises
get_client(cfg) ==
    LET api_key == CLIConfig_get_api_key(cfg)
        c == ClientInit(api_key, CLIConfig_get_base_url(cfg).s)
    IN  IF ~Truthy(api_key) THEN [exit |-> 1, obj |-> NoClient]
        ELSE IF c.exc # "" THEN [exit |-> 1, obj |-> NoClient]
        ELSE [exit |-> 0, obj |-> c.obj]

\* A wrapper call made by a command on the client `self`: the requests that
\* reached the client, the exception raised ("" if none), the envelope
ClientCall(self, plan, resp) ==
    IF plan.exc # ""
    THEN [calls |-> <<>>, exc |-> plan.exc, envelope |-> NoEnvelope]
    ELSE LET r == Dispatch(self, plan, resp, "RequestException")
         IN  [calls |-> <<[method |-> plan.method, endpoint |-> plan.endpoint,
                           ok |-> r.result.exc = ""]>>,
              exc |-> r.result.exc,
              envelope |-> r.result.envelope]

NoClientCall == [calls |-> <<>>, exc |-> "", envelope |-> NoEnvelope]

\* `omnidim agents create --name N --welcome W --context C [--file F]`
\* (--name, --welcome and --context are required options: without them the
\* command ends in typer's usage error, status 2, before its body runs)
AgentsCreate ==
    /\ ops < MaxCmds
    /\ menu.at = "shell"
    /\ \E required \in BOOLEAN, file \in {"", "unreadable", "incomplete", "invalid", "valid"} :
       \E resp \in IF required /\ file \in {"", "valid"} THEN CliOutcomes ELSE {ConnectionFailure} :
        LET g == get_client(config)
            breakdown == PyList(<<PyDict(("title" :> Text("Purpose")) @@ ("body" :> Text("ctx")))>>)
            \* the dict of the file, passed as create(**config)
            fromFile ==
                IF file = "valid"
                THEN Agent_create(Text("W"), breakdown, EmptyMap)
                ELSE Agent_create(Text("W"), Text("ctx"), EmptyMap)
            \* the first try block: open, json.load, client.agent.create(**config)
            first ==
                IF file \in {"valid", "invalid"} THEN ClientCall(g.obj, fromFile, resp)
                ELSE NoClientCall
            firstRaised == file \in {"unreadable", "incomplete"} \/ first.exc # ""
            \* the second try block without --file: create(**kwargs), then the id
            second ==
                ClientCall(g.obj,
                           Agent_create(Text("W"), breakdown, "welcome_message" :> Text("hi")),
                           resp)
            idRaised == second.exc = "" /\ second.envelope.json.t # "dict"
            agent_id ==
                IF second.exc = "" /\ HasKey(second.envelope.json, "id")
                THEN second.envelope.json.d["id"] ELSE PyNone
            out ==
                IF ~required THEN [calls |-> <<>>, exit |-> 2, report |-> "Missing option"]
                ELSE IF g.exit = 1 THEN [calls |-> <<>>, exit |-> 1, report |-> "No client"]
                ELSE IF file # "" /\ firstRaised
                THEN [calls |-> first.calls, exit |-> 1, report |-> "Error reading file"]
                ELSE IF file # ""
                \* `kwargs` is bound in the else branch only: the second try
                \* block raises UnboundLocalError, an Exception
                THEN [calls |-> first.calls, exit |-> 1, report |-> "Error creating agent"]
                ELSE IF second.exc # "" \/ idRaised
                THEN [calls |-> second.calls, exit |-> 1, report |-> "Error creating agent"]
                ELSE IF Truthy(agent_id)
                THEN [calls |-> second.calls, exit |-> 0, report |-> "Agent created successfully"]
                ELSE [calls |-> second.calls, exit |-> 0, report |-> "Agent created but ID not found"]
        IN  shell' = [cmd |-> "agents create", force |-> FALSE, file |-> file, answer |-> "",
                      calls |-> out.calls, exit |-> out.exit, report |-> out.report]
    /\ ops' = ops + 1
    /\ UNCHANGED <<client, netCalls, reqCalls, last, wrappers, config, menu>>

\* delete_agent / delete_file / delete_simulation: get_client, the
\* confirmation unless --force, the delete call
DeleteCommand_Unasked(cmd, plan) ==
    /\ \E force \in BOOLEAN, answer \in {"y", "n", "abort"}, resp \in CliOutcomes :
        LET g == get_client(config)
            asked == g.exit = 0 /\ ~force
            goes == g.exit = 0
            c == IF goes THEN ClientCall(g.obj, plan, resp) ELSE NoClientCall
        IN  shell' = [cmd |-> cmd, force |-> force, file |-> "",
                      answer |-> IF asked THEN answer ELSE "",
                      calls |-> c.calls,
                      exit |-> IF ~goes \/ c.exc # "" THEN 1 ELSE 0,
                      report |-> IF ~goes THEN "No client"
                                 ELSE IF c.exc # "" THEN "Error deleting"
                                 ELSE "deleted successfully"]
    /\ ops' = ops + 1
    /\ UNCHANGED <<client, netCalls, reqCalls, last, wrappers, config, menu>>
DeleteCommand(cmd, plan) ==
    /\ \E force \in BOOLEAN, answer \in {"y", "n", "abort"} :
       \E resp \in IF force \/ answer = "y" THEN CliOutcomes ELSE {ConnectionFailure} :
        LET g == get_client(config)
            asked == g.exit = 0 /\ ~force
            goes == g.exit = 0 /\ (force \/ answer = "y")
            c == IF goes THEN ClientCall(g.obj, plan, resp) ELSE NoClientCall
        IN  shell' = [cmd |-> cmd, force |-> force, file |-> "",
                      answer |-> IF asked THEN answer ELSE "",
                      calls |-> c.calls,
                      exit |-> IF g.exit = 1 THEN 1
                               ELSE IF asked /\ answer = "n" THEN 0
                               ELSE IF asked /\ answer = "abort" THEN 1
                               ELSE IF c.exc # "" THEN 1
                               ELSE 0,
                      report |-> IF g.exit = 1 THEN "No client"
                                 ELSE IF asked /\ answer = "n" THEN "Cancelled"
                                 ELSE IF asked /\ answer = "abort" THEN "Aborted"
                                 ELSE IF c.exc # "" THEN "Error deleting"
                                 ELSE "deleted successfully"]
    /\ ops' = ops + 1
    /\ UNCHANGED <<client, netCalls, reqCalls, last, wrappers, config, menu>>

\* `omnidim agents delete ID [--force]`
AgentsDelete ==
    /\ ops < MaxCmds
    /\ menu.at = "shell"
    /\ \E agent_id \in {PyInt(0), PyInt(1)} : DeleteCommand("agents delete", Agent_delete(agent_id))

\* `omnidim kb delete ID [--force]`
KbDelete ==
    /\ ops < MaxCmds
    /\ menu.at = "shell"
    /\ \E file_id \in {PyInt(0), PyInt(1)} : DeleteCommand("kb delete", KnowledgeBase_delete(file_id))

\* `omnidim simulations delete ID [--force]`
SimulationsDelete ==
    /\ ops < MaxCmds
    /\ menu.at = "shell"
    /\ \E simulation_id \in {PyInt(0), PyInt(1)} :
        DeleteCommand("simulations delete", Simulation_delete(simulation_id))

----------------------------------------------------------------------------
(* The command line: interactive mode *)

\* `omnidim` without a command, or `omnidim interactive`: interactive_mode
\* starts and shows the main menu
InteractiveMode ==
    /\ ops < MaxCmds
    /\ menu.at = "shell"
    /\ menu' = [at |-> "main", choice |-> "", raised |-> ""]
    /\ shell' = [NoCommand EXCEPT !.cmd = "interactive"]
    /\ ops' = ops + 1
    /\ UNCHANGED <<client, netCalls, reqCalls, last, wrappers, config>>

\* One turn of the loop of interactive_mode: the prompt raises, or the user
\* picks Exit (break), or a submenu (agent_menu and config_menu of the seven)
MainMenu_Unhandled ==
    /\ ops < MaxCmds
    /\ menu.at = "main"
    /\ \E raised \in {"", "KeyboardInterrupt", "Exception"}, choice \in {"agents", "config", "exit"} :
        menu' = IF raised = "KeyboardInterrupt" THEN [at |-> "main", choice |-> "", raised |-> raised]
                ELSE IF raised = "Exception" THEN [at |-> "shell", choice |-> "", raised |-> raised]
                ELSE IF choice = "exit" THEN [at |-> "shell", choice |-> choice, raised |-> ""]
                ELSE [at |-> choice, choice |-> choice, raised |-> ""]
    /\ ops' = ops + 1
    /\ UNCHANGED <<client, netCalls, reqCalls, last, wrappers, config, shell>>
MainMenu ==
    /\ ops < MaxCmds
    /\ menu.at = "main"
    /\ \E raised \in {"", "KeyboardInterrupt", "Exception"}, choice \in {"agents", "config", "exit"} :
        menu' = IF raised # "" THEN [at |-> "main", choice |-> "", raised |-> raised]
                ELSE IF choice = "exit" THEN [at |-> "shell", choice |-> choice, raised |-> ""]
                ELSE [at |-> choice, choice |-> choice, raised |-> ""]
    /\ ops' = ops + 1
    /\ UNCHANGED <<client, netCalls, reqCalls, last, wrappers, config, shell>>

\* delete_agent_interactive: the id, the confirmation, and on yes get_client
\* and the delete call; what it raises as an Exception it reports itself
delete_agent_interactive(agent_id, answer, resp) ==
    LET g == get_client(config)
        goes == answer = "y" /\ g.exit = 0
        c == IF goes THEN ClientCall(g.obj, Agent_delete(agent_id), resp)
             ELSE NoClientCall
    IN  [cmd |-> "interactive delete", force |-> FALSE, file |-> "", answer |-> answer,
         calls |-> c.calls, exit |-> 0,
         report |-> IF answer = "abort" THEN ""
                    ELSE IF answer = "n" THEN "Deletion cancelled"
                    ELSE IF g.exit = 1 \/ c.exc # "" THEN "Failed to delete agent"
                    ELSE "deleted successfully"]

\* One turn of the loop of agent_menu (List All Agents, Delete Agent and
\* Back of its choices). A KeyboardInterrupt, at the prompt or in the
\* operation chosen, breaks the loop; an Exception from the prompt is not
\* handled here and reaches the handler of interactive_mode; an Exception
\* in an operation is reported by the operation's own handler.
AgentMenu ==
    /\ ops < MaxCmds
    /\ menu.at = "agents"
    /\ \E raised \in {"", "KeyboardInterrupt", "Exception"}, choice \in {"back", "list", "delete"} :
       \E answer \in IF raised = "" /\ choice = "delete" THEN {"y", "n", "abort"} ELSE {"n"},
          resp \in IF raised = "" /\ choice # "back" THEN CliOutcomes ELSE {ConnectionFailure} :
        LET g == get_client(config)
            listed == IF g.exit = 0
                      THEN ClientCall(g.obj, Agent_list(PyInt(1), PyInt(10)), resp)
                      ELSE NoClientCall
            deleted == delete_agent_interactive(PyInt(1), answer, resp)
        IN  IF raised # ""
            THEN /\ menu' = [at |-> "main", choice |-> "", raised |-> raised]
                 /\ UNCHANGED shell
            ELSE IF choice = "back"
            THEN /\ menu' = [at |-> "main", choice |-> choice, raised |-> ""]
                 /\ UNCHANGED shell
            ELSE IF choice = "list"
            THEN /\ menu' = [at |-> "agents", choice |-> choice,
                             raised |-> IF g.exit = 1 \/ listed.exc # "" THEN "Exception" ELSE ""]
                 /\ shell' = [NoCommand EXCEPT !.cmd = "interactive list",
                                 !.calls = listed.calls,
                                 !.report = IF g.exit = 1 \/ listed.exc # ""
                                            THEN "Failed to list agents" ELSE "listed"]
            ELSE /\ menu' = IF answer = "abort"
                            THEN [at |-> "main", choice |-> choice, raised |-> "KeyboardInterrupt"]
                            ELSE [at |-> "agents", choice |-> choice,
                                  raised |-> IF deleted.report = "Failed to delete agent"
                                             THEN "Exception" ELSE ""]
                 /\ shell' = deleted
    /\ ops' = ops + 1
    /\ UNCHANGED <<client, netCalls, reqCalls, last, wrappers, config>>

\* One turn of the loop of config_menu. A KeyboardInterrupt breaks the
\* loop; config_menu handles no other exception, so an Exception of the
\* prompt or of CLIConfig reaches the handler of interactive_mode.
ConfigMenu ==
    /\ ops < MaxCmds
    /\ menu.at = "config"
    /\ \E raised \in {"", "KeyboardInterrupt", "Exception"}, choice \in {"back", "show", "key", "url"} :
       \E api_key \in IF raised = "" /\ choice = "key" THEN CliKeys ELSE {PyNone},
          url \in IF raised = "" /\ choice = "url" THEN {PyStr(Base), PyStr(Base \o <<"/">>)}
                 ELSE {PyNone},
          saved \in IF raised = "" /\ choice \in {"key", "url"} THEN BOOLEAN ELSE {TRUE} :
        /\ menu' = IF raised # "" THEN [at |-> "main", choice |-> "", raised |-> raised]
                   ELSE IF choice = "back" THEN [at |-> "main", choice |-> choice, raised |-> ""]
                   ELSE [at |-> "config", choice |-> choice, raised |-> ""]
        /\ config' = IF raised = "" /\ choice = "key"
                     THEN CLIConfig_set_api_key(config, api_key, saved)
                     ELSE IF raised = "" /\ choice = "url"
                     THEN CLIConfig_set_base_url(config, url, saved)
                     ELSE config
    /\ ops' = ops + 1
    /\ UNCHANGED <<client, netCalls, reqCalls, last, wrappers, shell>>

InitCli ==
    /\ client = NoClient
    /\ netCalls = 0
    /\ reqCalls = 0
    /\ ops = 0
    /\ last = Idle
    /\ wrappers = NoWrappers
    \* the environment: neither variable set, the first set, the first set
    \* to the empty string and the second set
    /\ config \in
        {[NoConfig EXCEPT !.env = e] :
            e \in {[OMNIDIM_API_KEY |-> PyNone, OMNIDIMENSION_API_KEY |-> PyNone],
                   [OMNIDIM_API_KEY |-> Key(MinKeyLen, 1, 0), OMNIDIMENSION_API_KEY |-> PyNone],
                   [OMNIDIM_API_KEY |-> PyStr(<<>>),
                    OMNIDIMENSION_API_KEY |-> Key(MinKeyLen, 0, 1)]}}
    /\ shell = NoCommand
    /\ menu = [at |-> "shell", choice |-> "", raised |-> ""]

NextCli ==
    \/ ConfigCommand
    \/ AgentsCreate
    \/ AgentsDelete
    \/ KbDelete
    \/ SimulationsDelete
    \/ InteractiveMode
    \/ MainMenu
    \/ AgentMenu
    \/ ConfigMenu

\* A terminal session of the command line
SpecCli == InitCli /\ [][NextCli]_vars

----------------------------------------------------------------------------
(* Properties *)

DirectOps == {"Client.request", "Client.get", "Client.post", "Client.put", "Client.delete"}

Arg(name) == last.args[name]

\* a str whose first character is not '+'
LacksPlus(v) == v.t = "str" /\ (v.s = <<>> \/ v.s[1] # "+")

\* a str that does not end in .pdf, in any letter case
NotPdf(v) == v.t = "str" /\ (v.s = <<>> \/ v.s[Len(v.s)] \notin {".pdf", ".PDF", ".Pdf"})

\* a list of mappings that each hold both `title` and `body`
WellFormedBreakdown(cb) ==
    /\ cb.t = "list"
    /\ \A i \in DOMAIN cb.items :
          cb.items[i].t = "dict" /\ {"title", "body"} \subseteq DOMAIN cb.items[i].d

\* The last operation raised the validation error and made no transport call
RejectedLocally == last.result.exc = "ValueError" /\ last.sent = <<>> /\ ~last.entered

\* The inputs of the last operation fail the validation rule stated for it
\* (to_number and filename taken as strings, the type they are documented
\* to have)
FailsStatedRule ==
    CASE last.op = "Agent.create" ->
            Arg("name").t # "str" \/ ~WellFormedBreakdown(Arg("context_breakdown"))
      [] last.op = "Call.dispatch_call" ->
            Arg("agent_id").t \notin {"int", "bool"} \/ LacksPlus(Arg("to_number"))
      [] last.op = "KnowledgeBase.create" -> NotPdf(Arg("filename"))
      [] last.op \in {"KnowledgeBase.attach", "KnowledgeBase.detach"} ->
            Arg("file_ids").t # "list" \/ Arg("agent_id").t \notin {"int", "bool"}
      [] last.op = "PhoneNumber.attach" ->
            \/ Arg("phone_number_id").t \notin {"int", "bool"}
            \/ Arg("agent_id").t \notin {"int", "bool"}
      [] last.op = "PhoneNumber.detach" ->
            Arg("phone_number_id").t \notin {"int", "bool"}
      [] last.op \in {"Simulation.get", "Simulation.delete", "Simulation.start",
                      "Simulation.stop", "Simulation.enhance_prompt"} ->
            Arg("simulation_id").t \notin {"int", "bool"}
      [] last.op = "Simulation.create" ->
            \/ Arg("name").t # "str" \/ Arg("name").s = <<>>
            \/ Arg("agent_id").t \notin {"int", "bool"}
            \/ Arg("scenarios") # PyNone /\ ValidateScenarios(Arg("scenarios")) # ""
      [] last.op = "Integrations.create_custom_api_integration" ->
            \/ ~Truthy(Arg("name")) \/ ~Truthy(Arg("url")) \/ ~Truthy(Arg("method"))
            \/ \E kind \in ParamKinds : ValidateIntegrationParams(Arg(kind), kind) # ""
      [] OTHER -> FALSE

\* C1 -- In every domain wrapper method that validates its inputs, an input
\* that fails validation raises the validation error before any network
\* call: that invocation makes zero transport calls.
C1_FailFast == FailsStatedRule => RejectedLocally

\* C2 -- Agent.create raises the validation error, with no network call,
\* for every name that is not a string and every context_breakdown that is
\* not a list of mappings holding both `title` and `body`; for a string name
\* and a well-formed list it issues exactly one POST.
C2_AgentCreate ==
    last.op = "Agent.create" =>
        IF Arg("name").t # "str" \/ ~WellFormedBreakdown(Arg("context_breakdown"))
        THEN RejectedLocally /\ netCalls = reqCalls
        ELSE Len(last.sent) = 1 /\ last.sent[1].method = "POST"

C2_Witness ==
    /\ last.op = "Agent.create"
    /\ Arg("name").t = "str"
    /\ Arg("context_breakdown").t = "list"
    /\ Len(Arg("context_breakdown").items) = 2
    /\ Arg("context_breakdown").items[2].t = "dict"
    /\ DOMAIN Arg("context_breakdown").items[2].d = {"title"}
    /\ RejectedLocally

\* C3 -- Call.dispatch_call raises the validation error and issues no POST
\* to calls/dispatch for every to_number (a string) that does not start
\* with `+`, and for every agent_id that is not an integer.
C3_DispatchRejects ==
    (/\ last.op = "Call.dispatch_call"
     /\ (Arg("agent_id").t \notin {"int", "bool"} \/ LacksPlus(Arg("to_number"))))
    => RejectedLocally

\* The transport answered the last call with an HTTP error status
HttpError == last.entered /\ ~last.resp.conn /\ RaisesForStatus(last.resp.status)

\* C4 -- On an HTTP error status Client.request raises APIError whose
\* status_code is the response status and whose message is the body's
\* error_description if present, else its error, else the raw error string
\* when the body is not parseable JSON; a 404 with body {"error": "not
\* found"} gives status_code 404 and message "not found".
C4_HttpErrorNormalised ==
    HttpError =>
        LET body == last.resp.body
            r == last.result
        IN  /\ r.exc = "APIError"
            /\ r.status_code = last.resp.status
            /\ r.envelope = NoEnvelope
            /\ body.kind = "object" /\ "error_description" \in DOMAIN body.fields
                   => r.message = body.fields["error_description"]
            /\ body.kind = "object" /\ DOMAIN body.fields \cap {"error_description", "error"} = {"error"}
                   => r.message = body.fields["error"]
            /\ body.kind \in {"empty", "text"}
                   => r.message = StrOfHTTPError(last.resp.status, last.sent[1].url)
            /\ (last.resp.status = 404 /\ body = Body("object", "error" :> PyStr(<<"not", " ", "found">>)))
                   => r.status_code = 404 /\ r.message = PyStr(<<"not", " ", "found">>)

C4_Witness ==
    /\ HttpError
    /\ last.op = "Client.get"
    /\ last.resp.status = 404
    /\ last.resp.body.kind = "object"
    /\ DOMAIN last.resp.body.fields = {"error_description", "error"}
    /\ last.result.message = PyStr(<<"bad", " ", "token">>)

C6_OneCallPerRequest ==
    /\ netCalls = reqCalls
    /\ last.entered => Len(last.sent) = 1

C6_Witness ==
    /\ reqCalls = 2
    /\ netCalls = 2
    /\ last.entered
    /\ last.result.exc = "APIError"
    /\ last.resp.status = 500

\* The last call sent a DELETE and the answer had a 2xx status
DeleteSucceeded ==
    /\ last.entered
    /\ last.sent[1].method = "DELETE"
    /\ ~last.resp.conn
    /\ last.resp.status \in 200..299

\* C7 -- A DELETE request answered with a 2xx status yields an envelope
\* whose json is the empty mapping, whatever body the transport returned.
C7_DeleteEnvelope ==
    DeleteSucceeded =>
        /\ last.result.exc = ""
        /\ last.result.envelope = [status |-> last.resp.status, json |-> PyDict(EmptyMap)]

C7_Witness ==
    /\ DeleteSucceeded
    /\ last.resp.body.kind = "object"
    /\ "id" \in DOMAIN last.resp.body.fields
    /\ last.result.envelope.json = PyDict(EmptyMap)

ExpectedUrl == <<"https:", "/", "/", "x", "/", "api", "/", "v1", "/", "agents", "/", "42">>

\* C8 -- The final URL does not depend on a trailing slash of base_url nor
\* on a leading slash of endpoint: base "https://x/api/v1/" or
\* "https://x/api/v1" with endpoint "agents/42" or "/agents/42" all give
\* "https://x/api/v1/agents/42".
C8_UrlJoin ==
    (last.op \in DirectOps) =>
        /\ last.sent[1].url = ExpectedUrl
        /\ \A b \in {Base, Base \o <<"/">>} :
              BuildUrl(ClientInit(client.api_key, b).obj.base_url, Arg("endpoint").s)
                  = last.sent[1].url

C8_Witness ==
    /\ last.op = "Client.get"
    /\ Arg("endpoint").s = <<"/", "agents", "/", "42">>
    /\ last.sent[1].url = ExpectedUrl

\* The headers mapping the caller passed to the last call
CallerHeaders ==
    IF last.op \in DirectOps /\ Arg("headers").t = "dict" THEN Arg("headers").d ELSE EmptyMap

\* C9 -- Every request sent carries Authorization (Bearer + the stored
\* api_key), Content-Type application/json and Accept application/json,
\* except that a header of the same name supplied by the caller is sent with
\* the caller's value.
C9_Headers ==
    last.entered =>
        LET h == last.sent[1].headers IN
        /\ {"Authorization", "Content-Type", "Accept"} \subseteq DOMAIN h
        /\ \A k \in DOMAIN CallerHeaders : h[k] = CallerHeaders[k]
        /\ "Authorization" \notin DOMAIN CallerHeaders
              => h["Authorization"] = PyStr(<<"Bearer", " ">> \o client.api_key.s)
        /\ \A k \in {"Content-Type", "Accept"} \ DOMAIN CallerHeaders :
              h[k] = PyStr(<<"application", "/", "json">>)

C9_Witness ==
    /\ last.op = "Client.post"
    /\ DOMAIN CallerHeaders = {"Authorization"}
    /\ last.sent[1].headers["Authorization"] = PyStr(<<"caller">>)
    /\ last.sent[1].headers["Accept"] = PyStr(<<"application", "/", "json">>)

\* The number of characters of s from its first to its last non-blank one
TrimmedLen(s) ==
    LET nb == {i \in DOMAIN s : s[i] # " "}
    IN  IF nb = {} THEN 0
        ELSE (CHOOSE i \in nb : \A j \in nb : j <= i)
               - (CHOOSE i \in nb : \A j \in nb : i <= j) + 1

\* C10 -- Constructing a Client fails with the configuration error whenever
\* api_key is empty, is not a string, or has fewer than 8 characters after
\* trimming whitespace, and succeeds for every string api_key of at least 8
\* trimmed characters.
C10_ApiKeyCheck ==
    last.op = "Client" =>
        LET k == Arg("api_key") IN
        IF k.t = "str" /\ TrimmedLen(k.s) >= 8
        THEN last.result.exc = "" /\ client.constructed /\ client.api_key = k
        ELSE last.result.exc = "ValueError"

C10_Witness ==
    /\ last.op = "Client"
    /\ Arg("api_key").t = "str"
    /\ Len(Arg("api_key").s) >= 8
    /\ TrimmedLen(Arg("api_key").s) = 7
    /\ last.result.exc = "ValueError"

\* C11 -- Constructing a Client with an empty base_url fails with the
\* configuration error, so no constructed Client holds an empty base URL.
C11_EmptyBaseUrl ==
    /\ (last.op = "Client" /\ Arg("base_url").s = <<>>) => last.result.exc = "ValueError"
    /\ client.constructed => client.base_url # <<>>

\* C12 -- The client configuration is immutable after construction: no
\* request/get/post/put/delete call and no wrapper operation, successful or
\* failing, changes the client's api_key or base_url.
C12_ConfigImmutable ==
    [][client'.api_key = client.api_key /\ client'.base_url = client.base_url]_vars

C12_Witness ==
    /\ ops = MaxOps
    /\ last.entered
    /\ last.result.exc = "APIError"
    /\ client = ClientInit(Key(MinKeyLen, 1, 0), Base \o <<"/">>).obj

\* The last operation was a wrapper method whose request, not a DELETE, the
\* transport answered with a 2xx status and a JSON body
WrapperGotJson ==
    /\ last.op \notin DirectOps \cup {"idle", "Client"}
    /\ last.entered
    /\ ~last.resp.conn
    /\ last.sent[1].method # "DELETE"
    /\ last.resp.status \in 200..299
    /\ last.resp.body.kind \in {"object", "array"}

\* C13 -- A wrapper method called with valid inputs returns the client's
\* envelope verbatim: for a non-DELETE request answered 2xx with JSON body B
\* it returns exactly {status, json: B}; create_custom_api_integration with
\* a 200 response {"id": 7} returns {status: 200, json: {"id": 7}}.
C13_EnvelopeVerbatim ==
    WrapperGotJson =>
        /\ last.result.exc = ""
        /\ last.result.envelope.status = last.resp.status
        /\ last.resp.body.kind = "object"
              => last.result.envelope.json = PyDict(last.resp.body.fields)
        /\ last.resp.body.kind = "array" => last.result.envelope.json.t = "list"
        /\ (/\ last.op = "Integrations.create_custom_api_integration"
            /\ last.resp.status = 200
            /\ last.resp.body.fields = ("id" :> PyInt(7)))
           => last.result.envelope = [status |-> 200, json |-> PyDict("id" :> PyInt(7))]

C13_Witness ==
    /\ WrapperGotJson
    /\ last.op = "Integrations.create_custom_api_integration"
    /\ Arg("name") = PyStr(<<"W">>)
    /\ Arg("query_params") =
          PyList(<<PyDict(("key" :> PyStr(<<"q">>)) @@ ("type" :> PyStr(<<"string">>))
                          @@ ("required" :> PyBool(TRUE))
                          @@ ("isLLMGenerated" :> PyBool(TRUE)))>>)
    /\ last.result.envelope = [status |-> 200, json |-> PyDict("id" :> PyInt(7))]

\* The stated rule for one entry of a parameter list of the given kind
EntryOk(kind, e) ==
    /\ e.t = "dict"
    /\ "key" \in DOMAIN e.d
    /\ kind = "headers" => "value" \in DOMAIN e.d
    /\ kind \in {"query_params", "body_params"} =>
          /\ "type" \in DOMAIN e.d =>
                e.d["type"] \in {PyStr(<<"string">>), PyStr(<<"number">>), PyStr(<<"boolean">>)}
          /\ \A f \in {"required", "isLLMGenerated"} \cap DOMAIN e.d : e.d[f].t = "bool"

\* The parameter list of the given kind the last operation was called with
GivenParams(kind) ==
    IF last.op = "Integrations.create_custom_api_integration" THEN Arg(kind)
    ELSE IF kind \in DOMAIN Arg("integration_data").d THEN Arg("integration_data").d[kind]
    ELSE PyNone

\* The last operation created a custom API integration, nothing but its
\* parameter lists (each a list, or not given) being open to rejection
ParamListsDecide ==
    /\ \/ /\ last.op = "Integrations.create_custom_api_integration"
          /\ Truthy(Arg("name")) /\ Truthy(Arg("url")) /\ Truthy(Arg("method"))
       \/ /\ last.op = "Integrations.create_integration_from_json"
          /\ Arg("integration_data").t = "dict"
          /\ {"integration_type", "name", "url", "method"}
                \subseteq DOMAIN Arg("integration_data").d
          /\ Arg("integration_data").d["integration_type"] = PyStr(<<"custom_api">>)
    /\ \A kind \in ParamKinds : GivenParams(kind).t \in {"list", "none"}

\* C14 -- Integration parameter lists are validated per kind: a headers
\* entry missing `key` or `value`, a query_params/body_params entry missing
\* `key`, or one whose `type` is present but not string/number/boolean or
\* whose `required` / `isLLMGenerated` is present but not boolean, raises
\* the validation error; a list whose entries all satisfy the rules is
\* accepted.
C14_ParamValidation ==
    ParamListsDecide =>
        IF \E kind \in ParamKinds :
              /\ GivenParams(kind).t = "list"
              /\ \E i \in DOMAIN GivenParams(kind).items :
                    ~EntryOk(kind, GivenParams(kind).items[i])
        THEN RejectedLocally
        ELSE /\ last.entered
             /\ last.sent[1].method = "POST"
             /\ last.sent[1].url = client.base_url \o <<"/", "integrations", "/", "custom-api">>

C14_Witness ==
    /\ ParamListsDecide
    /\ last.op = "Integrations.create_custom_api_integration"
    /\ Arg("headers") = PyNone
    /\ Arg("query_params") =
          PyList(<<PyDict(("key" :> PyStr(<<"q">>)) @@ ("type" :> PyStr(<<"float">>)))>>)
    /\ RejectedLocally

\* integration_data is a mapping whose integration_type is `type` and that
\* holds all the fields given
SelectsKind(type, fields) ==
    /\ last.op = "Integrations.create_integration_from_json"
    /\ Arg("integration_data").t = "dict"
    /\ {"integration_type"} \cup fields \subseteq DOMAIN Arg("integration_data").d
    /\ Arg("integration_data").d["integration_type"] = PyStr(<<type>>)

SelectsCustomApi == SelectsKind("custom_api", {"name", "url", "method"})

SelectsCal == SelectsKind("cal", {"name", "cal_api_key", "cal_id", "cal_timezone"})

\* The last operation issued one POST of integration_data to the endpoint
PostedTo(endpoint) ==
    /\ last.entered
    /\ Len(last.sent) = 1
    /\ last.sent[1].method = "POST"
    /\ last.sent[1].url = client.base_url \o <<"/">> \o endpoint
    /\ last.sent[1].json = Arg("integration_data")

\* Every parameter list given in integration_data passes the rules of C14
GivenParamsValid ==
    \A kind \in ParamKinds :
        \/ GivenParams(kind) = PyNone
        \/ /\ GivenParams(kind).t = "list"
           /\ \A i \in DOMAIN GivenParams(kind).items :
                 EntryOk(kind, GivenParams(kind).items[i])

\* C15 (as stated) -- create_integration_from_json posts to
\* integrations/custom-api for `custom_api` with name, url and method
\* present, to integrations/cal for `cal` with name, cal_api_key, cal_id and
\* cal_timezone present, and rejects every other input with the validation
\* error and no network call.
C15_Dispatch ==
    last.op = "Integrations.create_integration_from_json" =>
        IF SelectsCustomApi THEN PostedTo(<<"integrations", "/", "custom-api">>)
        ELSE IF SelectsCal THEN PostedTo(<<"integrations", "/", "cal">>)
        ELSE RejectedLocally

\* C15 (amended) -- as above, except that a `custom_api` input with its
\* required fields present is posted only when the headers, query_params
\* and body_params it holds pass the parameter validation, and is rejected
\* with the validation error and no network call otherwise.
C15_DispatchValidated ==
    last.op = "Integrations.create_integration_from_json" =>
        IF SelectsCustomApi /\ GivenParamsValid
        THEN PostedTo(<<"integrations", "/", "custom-api">>)
        ELSE IF SelectsCal THEN PostedTo(<<"integrations", "/", "cal">>)
        ELSE RejectedLocally

C15_Witness ==
    /\ SelectsCustomApi
    /\ DOMAIN Arg("integration_data").d = {"integration_type", "name", "url", "method", "headers"}
    /\ ~GivenParamsValid
    /\ RejectedLocally

\* The last token of a string filename is one of the extensions given
HasExtension(v, exts) == v.s # <<>> /\ v.s[Len(v.s)] \in exts

\* KnowledgeBase.create issued exactly one POST to knowledge_base/create
\* carrying the file data and the filename
UploadPosted ==
    /\ last.entered
    /\ Len(last.sent) = 1
    /\ last.sent[1].method = "POST"
    /\ last.sent[1].url = client.base_url \o <<"/", "knowledge_base", "/", "create">>
    /\ last.sent[1].json
          = PyDict(("file" :> Arg("file_data")) @@ ("filename" :> Arg("filename")))

GivenScenarios ==
    IF last.op = "Simulation.create" THEN Arg("scenarios") ELSE Arg("data").d["scenarios"]

\* The last operation was Simulation.create or Simulation.update with a
\* scenarios value, nothing but that value being open to rejection
ScenariosDecide ==
    \/ /\ last.op = "Simulation.create"
       /\ Arg("name").t = "str" /\ Arg("name").s # <<>>
       /\ Arg("agent_id").t \in {"int", "bool"}
       /\ Arg("scenarios") # PyNone
    \/ /\ last.op = "Simulation.update"
       /\ Arg("simulation_id").t \in {"int", "bool"}
       /\ Arg("data").t = "dict"
       /\ "scenarios" \in DOMAIN Arg("data").d
       /\ Arg("data").d["scenarios"] # PyNone

\* A voice entry that has `id` and a `provider` of the allow-list
VoiceOk(v) ==
    /\ v.t = "dict"
    /\ {"id", "provider"} \subseteq DOMAIN v.d
    /\ v.d["provider"] \in valid_providers

\* A mapping with name, description and expected_result as strings
HasTextFields(sc) ==
    /\ sc.t = "dict"
    /\ \A f \in {"name", "description", "expected_result"} :
          f \in DOMAIN sc.d /\ sc.d[f].t = "str"

\* scenarios is a list of such mappings whose voice entries, where
\* selected_voices lists any, are all in order
ScenariosOkAsStated(scs) ==
    /\ scs.t = "list"
    /\ \A i \in DOMAIN scs.items :
          /\ HasTextFields(scs.items[i])
          /\ ("selected_voices" \in DOMAIN scs.items[i].d
                /\ scs.items[i].d["selected_voices"].t = "list")
             => \A j \in DOMAIN scs.items[i].d["selected_voices"].items :
                   VoiceOk(scs.items[i].d["selected_voices"].items[j])

\* ... and whose selected_voices, where present, is a list
ScenariosOk(scs) ==
    /\ ScenariosOkAsStated(scs)
    /\ \A i \in DOMAIN scs.items :
          "selected_voices" \in DOMAIN scs.items[i].d
             => scs.items[i].d["selected_voices"].t = "list"

\* C17 (as stated) -- Scenario validation in Simulation.create and
\* Simulation.update rejects with the validation error any scenarios value
\* that is not a list of mappings each having name, description and
\* expected_result as strings, and any voice entry of a present
\* selected_voices lacking id or provider or with a provider outside the
\* allow-list; all other scenario lists are accepted.
C17_Scenarios ==
    ScenariosDecide =>
        IF ScenariosOkAsStated(GivenScenarios) THEN last.entered ELSE RejectedLocally

\* C17 (amended) -- as above, and a selected_voices that is present but is
\* not a list is rejected with the validation error as well.
C17_ScenariosVoicesList ==
    ScenariosDecide =>
        IF ScenariosOk(GivenScenarios) THEN last.entered ELSE RejectedLocally

C17_Witness ==
    /\ ScenariosDecide
    /\ last.op = "Simulation.update"
    /\ GivenScenarios.t = "list"
    /\ Len(GivenScenarios.items) = 1
    /\ HasTextFields(GivenScenarios.items[1])
    /\ "selected_voices" \in DOMAIN GivenScenarios.items[1].d
    /\ GivenScenarios.items[1].d["selected_voices"] = PyNone
    /\ RejectedLocally

\* An integer greater than zero (True is the integer 1 in Python)
PositiveInteger(x) == (x.t = "int" /\ x.n > 0) \/ (x.t = "bool" /\ x.b)

\* The id as it is written into the URL
IdText(x) == IF x.t = "int" THEN ToString(x.n) ELSE "True"

\* The last operation issued its single request, with this method and URL
SentOnce(method, path) ==
    /\ last.entered
    /\ Len(last.sent) = 1
    /\ netCalls = reqCalls
    /\ last.sent[1].method = method
    /\ last.sent[1].url = client.base_url \o <<"/">> \o path

\* C18 -- get_agent_integrations, add_integration_to_agent and
\* remove_integration_from_agent raise the validation error with no network
\* call whenever agent_id or integration_id is not an integer greater than
\* zero, and otherwise issue their single request: GET or POST to
\* agents/{agent_id}/integrations, DELETE to
\* agents/{agent_id}/integrations/{integration_id}.
C18_PositiveIds ==
    LET forAgent == <<"agents", "/", IdText(Arg("agent_id")), "/", "integrations">>
    IN
    /\ last.op \in {"Integrations.get_agent_integrations",
                    "Integrations.add_integration_to_agent",
                    "Integrations.remove_integration_from_agent"}
        => (RejectedLocally <=> \E k \in DOMAIN last.args : ~PositiveInteger(last.args[k]))
    /\ (last.op = "Integrations.get_agent_integrations" /\ ~RejectedLocally)
        => SentOnce("GET", forAgent)
    /\ (last.op = "Integrations.add_integration_to_agent" /\ ~RejectedLocally)
        => SentOnce("POST", forAgent)
    /\ (last.op = "Integrations.remove_integration_from_agent" /\ ~RejectedLocally)
        => SentOnce("DELETE", forAgent \o <<"/", IdText(Arg("integration_id"))>>)

C18_Witness ==
    /\ last.op = "Integrations.remove_integration_from_agent"
    /\ Arg("agent_id") = PyInt(1)
    /\ Arg("integration_id") = PyInt(0)
    /\ RejectedLocally

\* The transport answered the last request, not a DELETE, with a 2xx status
\* and a body that is empty or is JSON
AnsweredOk ==
    /\ last.entered
    /\ ~last.resp.conn
    /\ last.sent[1].method # "DELETE"
    /\ last.resp.status \in 200..299
    /\ last.resp.body.kind \in {"empty", "object", "array"}

\* C19 -- For a non-DELETE request answered with a 2xx status, the
\* envelope's json is the parsed JSON body when the body is non-empty and
\* the empty mapping when the body is empty.
C19_JsonOrEmpty ==
    AnsweredOk =>
        /\ last.result.exc = ""
        /\ last.result.envelope.status = last.resp.status
        /\ last.resp.body.kind = "empty" => last.result.envelope.json = PyDict(EmptyMap)
        /\ last.resp.body.kind = "object"
              => last.result.envelope.json = PyDict(last.resp.body.fields)
        /\ last.resp.body.kind = "array" => last.result.envelope.json = PyList(<<>>)

C19_Witness ==
    /\ AnsweredOk
    /\ last.op = "Client.post"
    /\ last.resp.status = 204
    /\ last.resp.body.kind = "empty"
    /\ last.result.envelope = [status |-> 204, json |-> PyDict(EmptyMap)]

\* C20 -- An APIError with status_code 0 signals a transport failure with no
\* response: whenever the transport returned a response, of any status and
\* any body, no APIError with status_code 0 is raised for that call.
C20_ZeroMeansNoResponse ==
    (last.entered /\ ~last.resp.conn)
        => ~(last.result.exc = "APIError" /\ last.result.status_code = 0)

\* The number of "/" characters s ends with
TrailingSlashes(s) ==
    IF \A i \in DOMAIN s : s[i] = "/" THEN Len(s)
    ELSE Len(s) - (CHOOSE i \in DOMAIN s : s[i] # "/" /\ \A j \in DOMAIN s : j > i => s[j] = "/")

\* A Client was just constructed
Constructed == last.op = "Client" /\ last.result.exc = "" /\ client.constructed

\* C21 (as stated) -- Construction strips exactly one trailing slash of
\* base_url: a base_url ending in k >= 1 slashes is stored with k-1 trailing
\* slashes, one without a trailing slash is stored unchanged.
C21_StripOne ==
    Constructed =>
        LET b == Arg("base_url").s
            k == TrailingSlashes(b)
        IN  IF k >= 1
            THEN client.base_url = SubSeq(b, 1, Len(b) - 1)
                 /\ TrailingSlashes(client.base_url) = k - 1
            ELSE client.base_url = b

\* C21 (amended) -- Construction strips every trailing slash of base_url:
\* the stored value is base_url without its k >= 0 trailing slashes, and
\* itself ends in none.
C21_StripAll ==
    Constructed =>
        LET b == Arg("base_url").s
        IN  /\ client.base_url = SubSeq(b, 1, Len(b) - TrailingSlashes(b))
            /\ TrailingSlashes(client.base_url) = 0

C21_Witness ==
    /\ Constructed
    /\ Arg("base_url").s = Base \o <<"/", "/">>
    /\ client.base_url = Base

\* The last operation, `op`, sent its request with this method to this path
\* (operations that raised before sending are not concerned)
SendsTo(op, method, path) ==
    (last.op = op /\ last.entered) =>
        /\ last.sent[1].method = method
        /\ last.sent[1].url = client.base_url \o <<"/">> \o path

\* get/update/delete of an agent with an integer id go to agents/{id}
AgentByIdEndpoints ==
    (last.op \in {"Agent.get", "Agent.update", "Agent.delete"} /\ Arg("agent_id").t = "int")
    => LET path == <<"agents", "/", ToString(Arg("agent_id").n)>>
       IN  /\ SendsTo("Agent.get", "GET", path)
           /\ SendsTo("Agent.update", "PUT", path)
           /\ SendsTo("Agent.delete", "DELETE", path)

\* C22 (as stated) -- Agent creation issues its POST to the endpoint
\* `agents`, the path on which GET lists agents, and get/update/delete of
\* an agent issue GET/PUT/DELETE to agents/{id}.
C22_AgentEndpoints ==
    /\ SendsTo("Agent.create", "POST", <<"agents">>)
    /\ SendsTo("Agent.list", "GET", <<"agents">>)
    /\ AgentByIdEndpoints

\* C22 (amended) -- Agent creation issues its POST to `agents/create`; GET
\* on `agents` lists agents, and get/update/delete of an agent issue
\* GET/PUT/DELETE to agents/{id}.
C22_AgentCreateEndpoint ==
    /\ SendsTo("Agent.create", "POST", <<"agents", "/", "create">>)
    /\ SendsTo("Agent.list", "GET", <<"agents">>)
    /\ AgentByIdEndpoints

C22_Witness ==
    /\ last.op = "Agent.create"
    /\ last.entered
    /\ last.result.exc = ""
    /\ last.sent[1].method = "POST"
    /\ last.sent[1].url = client.base_url \o <<"/", "agents", "/", "create">>

\* The scenarios of the example in the documentation of Simulation.create
DocExampleScenarios ==
    PyList(<<PyDict(
        ("name" :> PyStr(<<"text">>)) @@ ("description" :> PyStr(<<"text">>))
        @@ ("expected_result" :> PyStr(<<"text">>))
        @@ ("selected_voices" :> PyList(<<
              PyDict(("id" :> PyStr(<<"voice_id_1">>)) @@ ("provider" :> PyStr(<<"eleven_labs">>))),
              PyDict(("id" :> PyStr(<<"voice_id_2">>)) @@ ("provider" :> PyStr(<<"play_ht">>)))>>)))>>)

\* C23 -- The scenario list of the documented Simulation.create example
\* (name, description, expected_result, and selected_voices with providers
\* eleven_labs and play_ht) passes validation and results in one POST to
\* `simulations` whose payload contains those scenarios.
C23_DocExampleAccepted ==
    (/\ last.op = "Simulation.create"
     /\ Arg("name") = PyStr(<<"W">>)
     /\ Arg("agent_id") = PyInt(1)
     /\ Arg("scenarios") = DocExampleScenarios)
    => /\ last.entered
       /\ Len(last.sent) = 1
       /\ last.sent[1].method = "POST"
       /\ last.sent[1].url = client.base_url \o <<"/", "simulations">>
       /\ last.sent[1].json.d["scenarios"] = DocExampleScenarios

\* The transport answered the last call with a status of the set given
AnsweredWith(statuses) == last.entered /\ ~last.resp.conn /\ last.resp.status \in statuses

\* The last call raised APIError with the response's status, and returned
\* no envelope
RaisedWithStatus ==
    /\ last.result.exc = "APIError"
    /\ last.result.status_code = last.resp.status
    /\ last.result.envelope = NoEnvelope

\* C25 (as stated) -- Client.request returns an envelope only for a 2xx
\* response: for every response whose status is outside 200..299, 1xx and
\* 3xx included, no envelope is returned and an APIError carrying that
\* status is raised, so every envelope has a 2xx status.
C25_EnvelopeOnly2xx ==
    /\ AnsweredWith(100..599 \ (200..299)) => RaisedWithStatus
    /\ (last.entered /\ last.result.exc = "") => last.result.envelope.status \in 200..299

\* C25 (amended) -- Client.request returns no envelope for a 4xx or 5xx
\* response: for every response whose status is in 400..599 an APIError
\* carrying that status is raised, so every envelope has the status of the
\* response and that status is below 400 (2xx, or 1xx/3xx).
C25_NoEnvelopeOnError ==
    /\ AnsweredWith(400..599) => RaisedWithStatus
    /\ (last.entered /\ last.result.exc = "")
          => /\ last.result.envelope.status = last.resp.status
             /\ last.result.envelope.status \in 100..399

C25_Witness ==
    /\ AnsweredWith({304})
    /\ last.op = "Client.get"
    /\ last.result.exc = ""
    /\ last.result.envelope.status = 304

\* C26 -- Client.request, and get/post/put/delete through it, leave the
\* caller's `headers` mapping as it was passed in: after the call the
\* mapping holds the entries it held before. (`params` is only read, passed
\* on to the transport, so the headers mapping is where this is decided.)
C26_CallerMappingsUnchanged ==
    (last.op \in DirectOps /\ last.entered) => last.headersAfter = Arg("headers")

\* C24 -- Each of the six domain wrappers is built on first access and
\* cached: no wrapper exists before its property is read; a read returns the
\* wrapper held in the field, whose client is the Client it was read on; a
\* wrapper once built is never replaced, by a read or by a request; and a
\* read of one property leaves the wrappers of the other five as they were.
WrapperRead == wrappers'.gets # wrappers.gets

C24_LazyCached ==
    /\ [](wrappers.gets = 0 => \A n \in WrapperNames : wrappers.fields[n] = PyNone)
    /\ [][/\ \A n \in WrapperNames :
                wrappers.fields[n] # PyNone => wrappers'.fields[n] = wrappers.fields[n]
          /\ ~WrapperRead => wrappers'.fields = wrappers.fields
          /\ WrapperRead =>
                LET n == wrappers'.accessed IN
                /\ wrappers'.returned # PyNone
                /\ wrappers'.returned = wrappers'.fields[n]
                /\ wrappers'.returned.client = client
                /\ wrappers'.returned.cls = n
                /\ wrappers.fields[n] = PyNone =>
                        \A m \in WrapperNames : wrappers.fields[m] # wrappers'.returned
                /\ \A m \in WrapperNames \ {n} : wrappers'.fields[m] = wrappers.fields[m]]_vars

\* a second read of `agent`, after a request, gave the wrapper of the first
C24_Witness ==
    /\ wrappers.gets = 2
    /\ wrappers.made = 1
    /\ wrappers.accessed = "agent"
    /\ wrappers.returned = wrappers.fields["agent"]
    /\ wrappers.returned # PyNone
    /\ reqCalls > 0

\* C27 -- `agents create --file F` with a readable, valid configuration file
\* (the command line accepted, and an api key to build the client with)
\* issues exactly one agent creation request, and when that request succeeds
\* the command ends by reporting the created agent, not with exit status 1.
C27_CreateFromFile ==
    (/\ shell.cmd = "agents create"
     /\ shell.file = "valid"
     /\ shell.report \notin {"Missing option", "No client"})
        => /\ Len(shell.calls) = 1
           /\ shell.calls[1].ok =>
                /\ shell.exit # 1
                /\ shell.report = "Agent created successfully"

\* C28 -- In agents delete, kb delete, simulations delete and the
\* interactive agent deletion, a delete request reaches the client only if
\* --force was given or the user confirmed the prompt; a declined
\* confirmation ends the command as cancelled with no delete request.
DeleteCommands == {"agents delete", "kb delete", "simulations delete", "interactive delete"}

C28_DeleteOnlyConfirmed ==
    shell.cmd \in DeleteCommands
        => /\ shell.calls # <<>> => (shell.force \/ shell.answer = "y")
           /\ shell.answer = "n" =>
                /\ shell.calls = <<>>
                /\ shell.exit = 0
                /\ shell.report \in {"Cancelled", "Deletion cancelled"}

\* `simulations delete` was declined at the prompt
C28_Witness ==
    /\ shell.cmd = "simulations delete"
    /\ ~shell.force
    /\ shell.answer = "n"
    /\ shell.calls = <<>>
    /\ shell.report = "Cancelled"

\* C29 (as stated) -- interactive_mode ends only when Exit is chosen at the
\* main menu; a KeyboardInterrupt or any other exception raised at the main
\* menu or inside a submenu returns control to the main menu loop; Back in
\* a submenu returns to the main menu.
C29_OnlyExitEnds ==
    [][menu.at # "shell" =>
        /\ menu'.at = "shell" => (menu.at = "main" /\ menu'.choice = "exit")
        /\ menu'.raised # "" => menu'.at = "main"
        /\ menu'.choice = "back" => menu'.at = "main"]_vars

\* C29 (amended) -- interactive_mode ends only when Exit is chosen at the
\* main menu; a KeyboardInterrupt at the main menu or in a submenu, and any
\* other exception raised at the main menu or not handled inside the
\* submenu, returns control to the main menu loop; an exception that an
\* operation of agent_menu handles itself leaves the session in that
\* submenu; Back in a submenu returns to the main menu.
C29_SessionSurvives ==
    [][menu.at # "shell" =>
        /\ menu'.at = "shell" => (menu.at = "main" /\ menu'.choice = "exit")
        /\ menu'.raised = "KeyboardInterrupt" => menu'.at = "main"
        /\ menu'.raised = "Exception" =>
                \/ menu'.at = "main"
                \/ /\ menu.at = "agents"
                   /\ menu'.at = "agents"
                   /\ menu'.choice \in {"list", "delete"}
        /\ menu'.choice = "back" => menu'.at = "main"]_vars

\* listing the agents failed inside agent_menu, which is still open
C29_Witness ==
    /\ menu.at = "agents"
    /\ menu.choice = "list"
    /\ menu.raised = "Exception"
    /\ shell.report = "Failed to list agents"

\* C30 (as stated) -- After any sequence of successful set_api_key and
\* set_base_url calls, get_base_url() returns the URL set last (the default
\* if none was), get_api_key() returns the key set last, and each setter
\* leaves the other setting as it was stored.
StoredAsSet ==
    /\ FileGet(config, "api_key", PyNone) = config.key_set
    /\ FileGet(config, "base_url", PyNone) = config.url_set

UrlAsSet ==
    CLIConfig_get_base_url(config)
        = IF config.url_set = PyNone THEN PyStr(DefaultBaseUrl) ELSE config.url_set

C30_LastWriterWins ==
    /\ UrlAsSet
    /\ StoredAsSet
    /\ config.key_set # PyNone => CLIConfig_get_api_key(config) = config.key_set

\* C30 (amended) -- ... get_api_key() returns the key set last when neither
\* OMNIDIM_API_KEY nor OMNIDIMENSION_API_KEY is set to a non-empty value,
\* and otherwise the value of the first of the two that is; the stored key
\* and the stored URL are each the value set last.
C30_LastWriterWinsInFile ==
    /\ UrlAsSet
    /\ StoredAsSet
    /\ CLIConfig_get_api_key(config)
         = IF Truthy(config.env.OMNIDIM_API_KEY) THEN config.env.OMNIDIM_API_KEY
           ELSE IF Truthy(config.env.OMNIDIMENSION_API_KEY)
           THEN config.env.OMNIDIMENSION_API_KEY
           ELSE config.key_set

\* a key and then a URL were set while OMNIDIM_API_KEY is in the environment
C30_Witness ==
    /\ config.key_set = Key(MinKeyLen + 1, 0, 0)
    /\ config.url_set = PyStr(Base \o <<"/">>)
    /\ Truthy(config.env.OMNIDIM_API_KEY)
    /\ CLIConfig_get_api_key(config) = config.env.OMNIDIM_API_KEY
    /\ CLIConfig_get_base_url(config) = config.url_set

====
